---- MODULE Spec2Model ----
(***************************************************************************)
(* Model of the reasoning-capture tool handshakeos_e/cli.py: the input     *)
(* collector (the _prompt_* functions and their parsers), the capture      *)
(* pipeline (capture) and the SQLite store it writes to through one        *)
(* sqlite3 connection per invocation.                                      *)
(* A second part models the store and the commands of evez-core            *)
(* (evez/db.py, evez/schema.py, evez/commands/observations.py).            *)
(*                                                                         *)
(* Strings are sequences of atoms.  An atom is a record [k, w, n]: a space,*)
(* a comma, a bracket, a double quote, a run of non-digit characters w, or *)
(* the decimal numeral of the natural number n.  "test:3" is the two atoms *)
(* W("test:"), N(3).  Floats are counted in tenths (8 is 0.8).             *)
(***************************************************************************)
EXTENDS Integers, Sequences, FiniteSets, TLC

\* ---------------------------------------------------------------- bounds
\* Sessions (invocations of main) started on the one store.
MaxSessions == 2
\* Capacity of a table of the store: an insert into a full table fails
\* with a store error (disk full).
MaxRows == 7

\* ------------------------------------------------------ program constants
MinHypotheses == 3
MaxHypotheses == 7
MinFloat == 0
MaxFloat == 10
\* the largest int that float() converts (about 1.8 * 10^308) and the
\* largest int up to which float() is exact (2^53), on the model's scale
FloatIntMax == 1000
FloatExactMax == 100

\* ---------------------------------------------------------------- strings
SP == [k |-> "sp", w |-> " ", n |-> 0]
COMMA == [k |-> "comma", w |-> ",", n |-> 0]
LB == [k |-> "lb", w |-> "[", n |-> 0]
RB == [k |-> "rb", w |-> "]", n |-> 0]
QUOTE == [k |-> "quote", w |-> "\"", n |-> 0]
W(s) == [k |-> "word", w |-> s, n |-> 0]
N(i) == [k |-> "num", w |-> "", n |-> i]

\* str.lstrip(), str.rstrip(), str.strip()
RECURSIVE LStrip(_)
LStrip(s) == IF s # <<>> /\ Head(s) = SP THEN LStrip(Tail(s)) ELSE s

RECURSIVE RStrip(_)
RStrip(s) ==
    IF s # <<>> /\ s[Len(s)] = SP THEN RStrip(SubSeq(s, 1, Len(s) - 1)) ELSE s

Strip(s) == RStrip(LStrip(s))

\* str.lower(): the words of the model that differ in case only
LowerWord(s) ==
    CASE s = "ME" -> "me"
      [] s = "We" -> "we"
      [] s = "THEY" -> "they"
      [] s = "System" -> "system"
      [] s = "YES" -> "yes"
      [] s = "Yes" -> "yes"
      [] OTHER -> s

Lower(s) == [i \in 1..Len(s) |-> [s[i] EXCEPT !.w = LowerWord(s[i].w)]]

\* f"test:{test_id}"
TestRef(test_id) == <<W("test:"), N(test_id)>>

\* membership and append on Python lists
InList(x, l) == \E i \in 1..Len(l) : l[i] = x

\* ------------------------------------------------------- input collector
\* _prompt_text: the stripped line, accepted when non-empty or allow_empty
PromptText(raw, allow_empty) ==
    LET value == Strip(raw)
    IN  [ok |-> (value # <<>>) \/ allow_empty, v |-> value]

\* a comparison of the stripped line as typed, without lower()
PromptChoice_NoLower(raw, options_list) ==
    LET value == Strip(raw)
    IN  [ok |-> InList(value, options_list), v |-> value]

\* _prompt_choice: the stripped, lower-cased line, accepted when it is one of
\* the options
PromptChoice(raw, options_list) ==
    LET value == Lower(Strip(raw))
    IN  [ok |-> InList(value, options_list), v |-> value]

\* float(raw), in tenths: [-]d or [-]d.d; "nan" is a float that compares
\* false with everything; anything else raises ValueError (ok = FALSE)
ParseFloat(raw) ==
    LET s == Strip(raw)
        neg == s # <<>> /\ s[1] = W("-")
        u == IF neg THEN Tail(s) ELSE s
    IN  IF Len(u) = 1 /\ u[1].k = "num"
        THEN [ok |-> TRUE, nan |-> FALSE,
              v |-> IF neg THEN 0 - 10 * u[1].n ELSE 10 * u[1].n]
        ELSE IF Len(u) = 3 /\ u[1].k = "num" /\ u[2] = W(".")
                /\ u[3].k = "num" /\ u[3].n <= 9
        THEN [ok |-> TRUE, nan |-> FALSE,
              v |-> IF neg THEN 0 - (10 * u[1].n + u[3].n)
                    ELSE 10 * u[1].n + u[3].n]
        ELSE IF u = <<W("nan")>>
        THEN [ok |-> TRUE, nan |-> TRUE, v |-> 0]
        ELSE [ok |-> FALSE, nan |-> FALSE, v |-> 0]

\* _prompt_float: accepted when float(raw) succeeds and
\* min_value <= value <= max_value
PromptFloat(raw, min_value, max_value) ==
    LET p == ParseFloat(raw)
    IN  [ok |-> p.ok /\ ~p.nan /\ min_value <= p.v /\ p.v <= max_value,
         parsed |-> p.ok, v |-> p.v]

\* int(raw): [-]digits; anything else raises ValueError (ok = FALSE)
ParseInt(raw) ==
    LET s == Strip(raw)
        neg == s # <<>> /\ s[1] = W("-")
        u == IF neg THEN Tail(s) ELSE s
    IN  IF Len(u) = 1 /\ u[1].k = "num"
        THEN [ok |-> TRUE, v |-> IF neg THEN 0 - u[1].n ELSE u[1].n]
        ELSE [ok |-> FALSE, v |-> 0]

\* a range check that starts one below min_value
PromptInt_OneBelow(raw, min_value, max_value) ==
    LET p == ParseInt(raw)
    IN  [ok |-> p.ok /\ min_value - 1 <= p.v /\ p.v <= max_value,
         parsed |-> p.ok, v |-> p.v]

\* _prompt_int: accepted when int(raw) succeeds and
\* min_value <= value <= max_value
PromptInt(raw, min_value, max_value) ==
    LET p == ParseInt(raw)
    IN  [ok |-> p.ok /\ min_value <= p.v /\ p.v <= max_value,
         parsed |-> p.ok, v |-> p.v]

\* --- JSON values of a mixture-vector line: json.loads(raw) is given by the
\* line itself, a record [kind, data] with kind "empty" (the empty line),
\* "notjson" (json.loads raises) or "json" (data is the decoded value).
\* A decoded value is [t, items, f, s, n]: t is the JSON type, items the
\* elements of a list, f the members of an object, s a string, n a number
\* (int as is, float in tenths) or a boolean as 0/1.
JList(items) == [t |-> "list", items |-> items, f |-> <<>>, s |-> "", n |-> 0]
JDict(f) == [t |-> "dict", items |-> <<>>, f |-> f, s |-> "", n |-> 0]
JStr(s) == [t |-> "str", items |-> <<>>, f |-> <<>>, s |-> s, n |-> 0]
JInt(n) == [t |-> "int", items |-> <<>>, f |-> <<>>, s |-> "", n |-> n]
JFloat(n) == [t |-> "float", items |-> <<>>, f |-> <<>>, s |-> "", n |-> n]
JBool(b) ==
    [t |-> "bool", items |-> <<>>, f |-> <<>>, s |-> "",
     n |-> IF b THEN 1 ELSE 0]
JNull == [t |-> "null", items |-> <<>>, f |-> <<>>, s |-> "", n |-> 0]

\* entry.get(key)
DictGet(entry, key) == IF key \in DOMAIN entry.f THEN entry.f[key] ELSE JNull

\* isinstance(weight, (int, float)): bool is a subclass of int
IsNumber(x) == x.t \in {"int", "float", "bool"}

\* float(weight) raises OverflowError for an int above the largest float
\* (about 1.8 * 10^308; FloatIntMax stands for it on the model's scale)
Overflows(x) == x.t \in {"int", "bool"} /\ x.n > FloatIntMax

\* float(weight), in tenths: a float as it is; an int up to FloatExactMax
\* exactly; a larger int is rounded to a float, which are 2 apart there
\* (float(2**53 + 1) is 2.0**53)
ToFloat(x) ==
    IF x.t = "float" THEN x.n
    ELSE IF x.n > FloatExactMax THEN 10 * (x.n - (x.n % 2))
    ELSE 10 * x.n

\* the checks of one entry in _parse_mixture_vector
EntryOk(entry) ==
    /\ entry.t = "dict"
    /\ DictGet(entry, "domain").t = "str"
    /\ DictGet(entry, "domain").s # ""
    /\ IsNumber(DictGet(entry, "weight"))

\* the loop over the entries: the first entry that fails a check raises
\* ValueError, the first weight float() cannot convert raises OverflowError
RECURSIVE CleanEntries(_, _)
CleanEntries(data, cleaned) ==
    IF data = <<>> THEN [ok |-> TRUE, exc |-> "", v |-> cleaned]
    ELSE IF ~EntryOk(Head(data))
    THEN [ok |-> FALSE, exc |-> "ValueError", v |-> <<>>]
    ELSE IF Overflows(DictGet(Head(data), "weight"))
    THEN [ok |-> FALSE, exc |-> "OverflowError", v |-> <<>>]
    ELSE CleanEntries(Tail(data),
                      Append(cleaned,
                             [domain |-> DictGet(Head(data), "domain").s,
                              weight |-> ToFloat(DictGet(Head(data), "weight"))]))

\* a parser without the test for the empty line: json.loads("") raises
ParseMixtureVector_RejectsEmpty(raw) ==
    IF raw.kind \in {"empty", "notjson"}
    THEN [ok |-> FALSE, exc |-> "ValueError", v |-> <<>>]
    ELSE IF raw.data.t # "list"
    THEN [ok |-> FALSE, exc |-> "ValueError", v |-> <<>>]
    ELSE CleanEntries(raw.data.items, <<>>)

\* _parse_mixture_vector: ok = FALSE is the exception exc
ParseMixtureVector(raw) ==
    IF raw.kind = "empty" THEN [ok |-> TRUE, exc |-> "", v |-> <<>>]
    ELSE IF raw.kind = "notjson"
    THEN [ok |-> FALSE, exc |-> "ValueError", v |-> <<>>]
    ELSE IF raw.data.t # "list"
    THEN [ok |-> FALSE, exc |-> "ValueError", v |-> <<>>]
    ELSE CleanEntries(raw.data.items, <<>>)

\* --- evidence references
\* raw.split(","): the pieces between the commas
RECURSIVE SplitComma(_, _, _)
SplitComma(s, cur, acc) ==
    IF s = <<>> THEN Append(acc, cur)
    ELSE IF Head(s) = COMMA THEN SplitComma(Tail(s), <<>>, Append(acc, cur))
    ELSE SplitComma(Tail(s), Append(cur, Head(s)), acc)

\* a comprehension without its filter: [item.strip() for item in data]
RECURSIVE StripAndDrop_KeepsEmpty(_)
StripAndDrop_KeepsEmpty(data) ==
    IF data = <<>> THEN <<>>
    ELSE <<Strip(Head(data))>> \o StripAndDrop_KeepsEmpty(Tail(data))

\* [item.strip() for item in data if item.strip()]
RECURSIVE StripAndDrop(_)
StripAndDrop(data) ==
    IF data = <<>> THEN <<>>
    ELSE IF Strip(Head(data)) = <<>> THEN StripAndDrop(Tail(data))
    ELSE <<Strip(Head(data))>> \o StripAndDrop(Tail(data))

\* position of the first double quote of s, 0 when there is none
RECURSIVE FindQuote(_, _)
FindQuote(s, i) ==
    IF i > Len(s) THEN 0 ELSE IF s[i] = QUOTE THEN i ELSE FindQuote(s, i + 1)

\* json.loads of a line that starts with "[", followed by the test that
\* the value is a list of strings: mode is "first" (an item or "]"), "item"
\* (an item) or "sep" ("," or "]"); ok = FALSE is ValueError
RECURSIVE LoadStrList(_, _, _)
LoadStrList(s, mode, acc) ==
    IF s = <<>> THEN [ok |-> FALSE, v |-> <<>>]
    ELSE IF Head(s) = SP THEN LoadStrList(Tail(s), mode, acc)
    ELSE IF Head(s) = RB /\ mode \in {"first", "sep"}
    THEN [ok |-> Strip(Tail(s)) = <<>>, v |-> acc]
    ELSE IF Head(s) = COMMA /\ mode = "sep" THEN LoadStrList(Tail(s), "item", acc)
    ELSE IF Head(s) = QUOTE /\ mode \in {"first", "item"}
    THEN LET j == FindQuote(Tail(s), 1)
         IN  IF j = 0 THEN [ok |-> FALSE, v |-> <<>>]
             ELSE LoadStrList(SubSeq(Tail(s), j + 1, Len(Tail(s))), "sep",
                              Append(acc, SubSeq(Tail(s), 1, j - 1)))
    ELSE [ok |-> FALSE, v |-> <<>>]

\* _parse_evidence_refs: ok = FALSE is ValueError
ParseEvidenceRefs(raw) ==
    IF raw = <<>> THEN [ok |-> TRUE, v |-> <<>>]
    ELSE IF LStrip(raw) # <<>> /\ LStrip(raw)[1] = LB
    THEN LET data == LoadStrList(Tail(LStrip(raw)), "first", <<>>)
         IN  IF data.ok THEN [ok |-> TRUE, v |-> StripAndDrop(data.v)]
             ELSE [ok |-> FALSE, v |-> <<>>]
    ELSE [ok |-> TRUE, v |-> StripAndDrop(SplitComma(raw, <<>>, <<>>))]

\* --- json.dumps / json.loads of the persisted TEXT columns.  The text is a
\* sequence of tokens: "[", then per element its tokens, "]".
\* json.dumps(list of strings): each string becomes a quoted literal
RECURSIVE DumpsStrList(_)
DumpsStrList(l) ==
    IF l = <<>> THEN <<>>
    ELSE <<[lit |-> Head(l)]>> \o DumpsStrList(Tail(l))

JsonDumpsRefs(l) == [open |-> "[", body |-> DumpsStrList(l), close |-> "]"]
JsonLoadsRefs(text) == [i \in 1..Len(text.body) |-> text.body[i].lit]

\* a dump that writes the weight as a whole number
DumpsEntry_DropsFraction(e) ==
    <<[key |-> "domain", str |-> e.domain, whole |-> 0, frac |-> 0],
      [key |-> "weight", str |-> "", whole |-> e.weight \div 10, frac |-> 0]>>

\* json.dumps(list of {domain, weight}): each entry becomes an object with
\* the two members in insertion order; a float is written with its fraction
DumpsEntry(e) ==
    <<[key |-> "domain", str |-> e.domain, whole |-> 0, frac |-> 0],
      [key |-> "weight", str |-> "", whole |-> e.weight \div 10,
       frac |-> e.weight % 10]>>

JsonDumpsMixture(l) ==
    [open |-> "[", body |-> [i \in 1..Len(l) |-> DumpsEntry(l[i])], close |-> "]"]
JsonLoadsMixture(text) ==
    [i \in 1..Len(text.body) |->
       [domain |-> text.body[i][1].str,
        weight |-> 10 * text.body[i][2].whole + text.body[i][2].frac]]

\* ------------------------------------------------------------------ store
\* The tables of _ensure_schema, in the order of the script.
TableNames ==
    <<"intents", "observations", "hypotheses", "tests", "outcomes",
      "pattern_seeds">>

Tables == {TableNames[i] : i \in 1..Len(TableNames)}

\* A database: the tables that exist, their rows and, per table, the
\* sqlite_sequence value of its AUTOINCREMENT key (0: no row of the table in
\* sqlite_sequence).
EmptyDb ==
    [tables |-> {}, rows |-> [t \in Tables |-> {}], seq |-> [t \in Tables |-> 0]]

Ids(db, t) == {r.id : r \in db.rows[t]}

SetMax(S) == IF S = {} THEN 0 ELSE CHOOSE x \in S : \A y \in S : y <= x

\* a CREATE TABLE that replaces an existing table
CreateTable_Replaces(db, t) ==
    [db EXCEPT !.tables = @ \cup {t}, !.rows[t] = {}]

\* CREATE TABLE IF NOT EXISTS t
CreateTableIfNotExists(db, t) == [db EXCEPT !.tables = @ \cup {t}]

\* INTEGER PRIMARY KEY AUTOINCREMENT: one more than the largest key the
\* table ever held, which sqlite_sequence records
NextRowId(db, t) ==
    (IF SetMax(Ids(db, t)) > db.seq[t] THEN SetMax(Ids(db, t)) ELSE db.seq[t]) + 1

\* FOREIGN KEY (...) REFERENCES ...: the constraints of the six tables
ForeignKeysOk(db, t, row) ==
    CASE t = "intents" -> TRUE
      [] t = "observations" -> row.intent_id \in Ids(db, "intents")
      [] t = "hypotheses" -> row.observation_id \in Ids(db, "observations")
      [] t = "tests" -> row.hypothesis_id \in Ids(db, "hypotheses")
      [] t = "outcomes" ->
            /\ row.observation_id \in Ids(db, "observations")
            /\ row.hypothesis_id \in Ids(db, "hypotheses")
      [] t = "pattern_seeds" -> row.outcome_id \in Ids(db, "outcomes")

\* INSERT INTO t: the statement fails when the table is missing, when the
\* store is full, or when foreign keys are enforced on the connection and a
\* foreign key of the row has no referent
InsertFails(c, t, row) ==
    \/ t \notin c.db.tables
    \/ Cardinality(c.db.rows[t]) >= MaxRows
    \/ c.foreign_keys /\ ~ForeignKeysOk(c.db, t, row)

\* an INSERT OR REPLACE under the largest key of the table
InsertRow_Replaces(db, t, row) ==
    LET id == IF Ids(db, t) = {} THEN 1 ELSE SetMax(Ids(db, t))
    IN  [db EXCEPT !.rows[t] = {r \in @ : r.id # id}
                                  \cup {[row EXCEPT !.id = id]},
                   !.seq[t] = id]

\* the database after INSERT INTO t; row comes without its id
InsertRow(db, t, row) ==
    [db EXCEPT !.rows[t] = @ \cup {[row EXCEPT !.id = NextRowId(db, t)]},
               !.seq[t] = NextRowId(db, t)]

\* conn.execute(INSERT ...): sqlite3 opens a transaction before the first
\* data-modifying statement; the change stays in the connection's
\* transaction until commit
ExecuteInsert(c, t, row) ==
    [c EXCEPT !.in_transaction = TRUE, !.db = InsertRow(c.db, t, row)]

\* what is durable after conn.commit() on connection c over store d
CommitEffect(d, c) == IF c.in_transaction THEN c.db ELSE d

\* a close that commits the pending transaction
CloseEffect_Commits(d, c) == c.db

\* a rollback that keeps the key counters of the rolled-back inserts
CloseEffect_KeepsSequence(d, c) == [d EXCEPT !.seq = c.db.seq]

\* what is durable after conn.close(), or after the process dies with the
\* connection open: the pending transaction is rolled back
CloseEffect(d, c) == d

\* a connection that is not open
NoConn == [state |-> "none", in_transaction |-> FALSE, foreign_keys |-> FALSE,
           db |-> EmptyDb]

\* --------------------------------------------------------------- operator
\* The lines the operator may type.  A text prompt is answered with the
\* name of the prompt (plus the hypothesis number inside the loop), with or
\* without surrounding blanks, or with a blank or empty line.
Numeral(i) == IF i < 0 THEN <<W("-"), N(0 - i)>> ELSE <<N(i)>>

Tenths(a, b) == <<N(a), W("."), N(b)>>

TextLines(p, l) ==
    LET word == IF p = "falsifiers" THEN <<W(p), N(l.index)>> ELSE <<W(p)>>
    IN  {<<>>, <<SP>>, word, <<SP>> \o word \o <<SP>>}

FloatLines(p, l) ==
    {<<>>, <<W("high")>>, <<W("nan")>>, Numeral(-1), Tenths(1, 1), Numeral(2),
     <<W("-")>> \o Tenths(0, 1)}
    \cup (IF p = "confidence" THEN {Tenths(0, 8)}
          ELSE IF l.index = 1 THEN {Numeral(0)}
          ELSE IF l.index = 2 THEN {<<SP>> \o Tenths(1, 0)}
          ELSE {Tenths(0, 5)})

IntLines(p, l) ==
    {<<>>, <<W("three")>>, Tenths(3, 5)}
    \cup (IF p = "hypothesis_count"
          THEN {Numeral(i) : i \in {-3, 0, MinHypotheses - 1, MinHypotheses,
                                    MaxHypotheses, MaxHypotheses + 1}}
          ELSE {Numeral(i) : i \in -1..(MaxHypotheses + 1)})

ModelTypes == <<<<W("me")>>, <<W("we")>>, <<W("they")>>, <<W("system")>>>>

ChoiceLines(p, l) ==
    {<<>>, <<W("us")>>, <<W("me"), SP, W("we")>>}
    \cup (CASE l.index % 4 = 1 -> {<<W("me")>>, <<W("ME")>>}
            [] l.index % 4 = 2 -> {<<SP, W("We")>>}
            [] l.index % 4 = 3 -> {<<W("System"), SP>>}
            [] OTHER -> {<<W("THEY")>>})

OpsRisk ==
    JList(<<JDict([domain |-> JStr("ops"), weight |-> JFloat(6)]),
            JDict([domain |-> JStr("risk"), weight |-> JFloat(4)])>>)

MixtureLines(p, l) ==
    {[kind |-> "empty", data |-> JNull],
     [kind |-> "notjson", data |-> JNull],
     [kind |-> "json", data |-> JDict([domain |-> JStr("ops"), weight |-> JInt(1)])],
     [kind |-> "json", data |-> JList(<<JStr("ops")>>)],
     [kind |-> "json", data |-> JList(<<JDict([weight |-> JFloat(6)])>>)],
     [kind |-> "json", data |-> JList(<<JDict([domain |-> JStr(""), weight |-> JFloat(6)])>>)],
     [kind |-> "json", data |-> JList(<<JDict([domain |-> JInt(1), weight |-> JFloat(6)])>>)],
     [kind |-> "json", data |-> JList(<<JDict([domain |-> JStr("ops")])>>)],
     [kind |-> "json", data |-> JList(<<JDict([domain |-> JStr("ops"), weight |-> JStr("high")])>>)],
     [kind |-> "json", data |-> JList(<<JDict([domain |-> JStr("ops"), weight |-> JInt(FloatIntMax + 1)])>>)],
     [kind |-> "json", data |-> JList(<<>>)]}
    \cup (IF p = "domain_signature" /\ l.index = 1
          THEN {[kind |-> "json", data |-> OpsRisk]} ELSE {})

Log == <<W("log:"), N(1234)>>

EvidenceLines(p, l) ==
    {<<>>, <<SP>>, <<LB>>, <<LB, N(1), RB>>, <<LB, QUOTE>> \o Log \o <<RB>>}
    \cup (IF p = "outcome_refs"
          THEN {Log \o <<COMMA, SP>>, <<LB, QUOTE>> \o Log \o <<QUOTE, RB>>}
          ELSE {})
    \cup (IF p = "outcome_refs"
          THEN {TestRef(l.test_id) \o <<COMMA>> \o Log} ELSE {})

\* ------------------------------------------------------------- evez-core
\* The store of evez-core (evez/db.py, evez/schema.py): a second program of
\* the repository with a store file of its own.
\* Bound: the keys the observations table hands out.
MaxObservations == 2

SCHEMA_VERSION == 1

\* schema_statements(): each statement is CREATE TABLE / CREATE INDEX
\* IF NOT EXISTS of the object named
schema_statements ==
    <<"schema_version", "observations", "idx_observations_timestamp",
      "idx_observations_location">>

\* migration_statements(from_version, to_version); ok is FALSE where the
\* function raises ValueError("Unsupported migration path")
migration_statements(from_version, to_version) ==
    IF from_version = 0 /\ to_version = 1
    THEN [ok |-> TRUE, statements |-> schema_statements]
    ELSE [ok |-> FALSE, statements |-> <<>>]

\* An evez store: the objects of its schema, the rows of schema_version (a
\* table without key: a list of versions), the rows of observations and the
\* sqlite_sequence value of the observations key.  None is <<>>, a given
\* optional value x is <<x>>.
EmptyStore == [schema |-> {}, version |-> <<>>, observations |-> {}, seq |-> 0]

\* a store left by a later release: its recorded version is above
\* SCHEMA_VERSION
NewerStore(observations) ==
    [schema |-> {schema_statements[i] : i \in 1..Len(schema_statements)},
     version |-> <<SCHEMA_VERSION + 1>>,
     observations |-> observations,
     seq |-> Cardinality(observations)]

\* a CREATE that replaces the object: the rows of the table are gone
CreateIfNotExists_Replaces(db, name) ==
    [db EXCEPT !.schema = @ \cup {name},
               !.version = IF name = "schema_version" THEN <<>> ELSE @,
               !.observations = IF name = "observations" THEN {} ELSE @]

\* CREATE TABLE IF NOT EXISTS name / CREATE INDEX IF NOT EXISTS name
CreateIfNotExists(db, name) == [db EXCEPT !.schema = @ \cup {name}]

\* SELECT version FROM schema_version ORDER BY version DESC LIMIT 1, and 0
\* when there is no row
RecordedVersion(db) ==
    IF db.version = <<>> THEN 0
    ELSE CHOOSE v \in {db.version[i] : i \in 1..Len(db.version)} :
             \A i \in 1..Len(db.version) : db.version[i] <= v

\* set_schema_version: DELETE FROM schema_version, then INSERT (version)
SetSchemaVersionRows(db, version) == [db EXCEPT !.version = <<version>>]

\* INSERT INTO observations (timestamp, content, tags, location)
InsertObservationRow(db, timestamp, content, tags, location) ==
    LET id == (IF SetMax({r.id : r \in db.observations}) > db.seq
               THEN SetMax({r.id : r \in db.observations}) ELSE db.seq) + 1
    IN  [db EXCEPT !.observations =
                       @ \cup {[id |-> id, timestamp |-> timestamp,
                                content |-> content, tags |-> tags,
                                location |-> location]},
                   !.seq = id]

\* _build_update_pairs: the (column, value) pairs of the options given
build_update_pairs(content, tags, location, timestamp) ==
    (IF content # <<>> THEN <<[column |-> "content", value |-> content]>>
     ELSE <<>>)
    \o (IF tags # <<>> THEN <<[column |-> "tags", value |-> tags]>> ELSE <<>>)
    \o (IF location # <<>>
        THEN <<[column |-> "location", value |-> location]>> ELSE <<>>)
    \o (IF timestamp # <<>>
        THEN <<[column |-> "timestamp", value |-> timestamp]>> ELSE <<>>)

\* the row after SET column = ? for each pair, in order; content and
\* timestamp are NOT NULL columns and hold the value itself
RECURSIVE Assign(_, _)
Assign(row, updates) ==
    IF updates = <<>> THEN row
    ELSE LET u == Head(updates)
             r == CASE u.column = "content" ->
                           [row EXCEPT !.content = u.value[1]]
                    [] u.column = "tags" -> [row EXCEPT !.tags = u.value]
                    [] u.column = "location" ->
                           [row EXCEPT !.location = u.value]
                    [] OTHER -> [row EXCEPT !.timestamp = u.value[1]]
         IN  Assign(r, Tail(updates))

\* UPDATE observations SET ... WHERE id = ?
UpdateObservationRows(db, updates, observation_id) ==
    [db EXCEPT !.observations =
                   {IF r.id = observation_id THEN Assign(r, updates) ELSE r :
                        r \in @}]

\* DELETE FROM observations WHERE id = ?
DeleteObservationRows(db, observation_id) ==
    [db EXCEPT !.observations = {r \in @ : r.id # observation_id}]

\* a rowcount that counts the rows of the table
RowCount_OfTable(db, observation_id) == Cardinality(db.observations)

\* cursor.rowcount of the UPDATE or DELETE: the rows the WHERE matches
RowCount(db, observation_id) ==
    Cardinality({r \in db.observations : r.id = observation_id})

\* no connection
NoConnection == [open |-> FALSE, in_transaction |-> FALSE, db |-> EmptyStore]

\* no command running
NoRun ==
    [cmd |-> "none", pc |-> "idle", observation_id |-> 0, content |-> <<>>,
     tags |-> <<>>, location |-> <<>>, timestamp |-> <<>>, force |-> FALSE,
     confirmation |-> <<>>, connection |-> NoConnection,
     current_version |-> 0, current |-> 0, stmt |-> 0, exc |-> "",
     exit_code |-> -1, before |-> EmptyStore]

\* ------------------------------------------------------------------ state
VARIABLES
    disk,          \* the store file: what is durable
    conn,          \* the sqlite3 connection of the running capture
    pc,            \* the statement of capture/main about to run
    loc,           \* the local variables of capture
    out,           \* the last message printed by a prompt function
    session,       \* number of invocations started
    trace,         \* the inserts and commits executed on conn, in order
    ret,           \* what capture hands to its caller
    exit_code,     \* exit status of the process, -1 while it runs
    committed,     \* the sessions whose conn.commit() took effect
    inserted,      \* the sessions that executed an INSERT
    disk_at_start, \* the store as it was when the session connected
    assigned,      \* the keys lastrowid returned for intents, by session
    probe,         \* an input line and what a parser made of it
    store,         \* the store file of evez-core: what is durable
    run            \* the evez command that runs, its arguments and locals

vars ==
    <<disk, conn, pc, loc, out, session, trace, ret, exit_code, committed,
      inserted, disk_at_start, assigned, probe, store, run>>

NoTest == [hypothesis_id |-> 0, description |-> <<>>, result |-> <<>>,
           evidence |-> <<>>]

NoOutcome == [hypothesis_id |-> 0, summary |-> <<>>, evidence_refs |-> <<>>]

NoPattern ==
    [outcome_id |-> 0, trigger |-> <<>>, invariant |-> <<>>,
     counterexample |-> <<>>, best_response |-> <<>>,
     domain_signature |-> <<>>, evidence_refs |-> <<>>]

LocInit ==
    [stmt |-> 0, exc |-> "",
     goal |-> <<>>, constraints |-> <<>>, success_signal |-> <<>>,
     confidence |-> 0, intent_id |-> 0,
     observation_desc |-> <<>>, observation_domain_signature |-> <<>>,
     observation_id |-> 0,
     hypothesis_count |-> 0, index |-> 0, model_type |-> <<>>,
     probability |-> 0, falsifiers |-> <<>>, domain_signature |-> <<>>,
     hypotheses |-> <<>>, hypothesis_ids |-> <<>>,
     test_hypothesis_index |-> 0, test_description |-> <<>>,
     test_result |-> <<>>, test_evidence |-> <<>>, test_input |-> NoTest,
     test_id |-> 0,
     outcome_summary |-> <<>>, outcome_refs |-> <<>>,
     outcome_input |-> NoOutcome, outcome_id |-> 0,
     trigger |-> <<>>, invariant |-> <<>>, counterexample |-> <<>>,
     best_response |-> <<>>, pattern_domain_signature |-> <<>>,
     pattern_evidence_refs |-> <<>>, pattern_input |-> NoPattern]

\* no line probed: fn is the parser ("mixture", "evidence"), json or line
\* its input (line built from the tokens toks in the encoding enc), at the
\* stage reached, ok/exc/vec/refs what the parser returned, text the TEXT
\* column written by json.dumps, reread what json.loads makes of it
NoProbe ==
    [fn |-> "none", at |-> "input",
     json |-> [kind |-> "empty", data |-> JNull],
     line |-> <<>>, toks |-> <<>>, enc |-> "",
     ok |-> FALSE, exc |-> "", vec |-> <<>>, refs |-> <<>>,
     text |-> [open |-> "", body |-> <<>>, close |-> ""], reread |-> <<>>]

NoRet == [kind |-> "none", intent_id |-> 0, observation_id |-> 0,
          hypothesis_ids |-> <<>>, test_id |-> 0, outcome_id |-> 0]

\* the state of the capture tool before main is started
InitCapture ==
    /\ disk = EmptyDb
    /\ conn = NoConn
    /\ pc = "idle"
    /\ loc = LocInit
    /\ out = ""
    /\ session = 0
    /\ trace = <<>>
    /\ ret = NoRet
    /\ exit_code = -1
    /\ committed = {}
    /\ inserted = {}
    /\ disk_at_start = EmptyDb
    /\ assigned = {}

\* neither the collector probe nor evez-core is in use
OthersIdle == probe = NoProbe /\ store = EmptyStore /\ run = NoRun

Init == InitCapture /\ OthersIdle

\* --------------------------------------------------------------- pipeline
\* The prompts of capture by the local variable they assign, with the
\* prompt function they call
TextPrompts ==
    {"goal", "constraints", "success_signal", "observation_desc",
     "falsifiers", "test_description", "test_result", "test_evidence",
     "outcome_summary", "trigger", "invariant", "counterexample",
     "best_response"}
FloatPrompts == {"confidence", "probability"}
IntPrompts == {"hypothesis_count", "test_hypothesis_index"}
ChoicePrompts == {"model_type"}
MixturePrompts ==
    {"observation_domain_signature", "domain_signature",
     "pattern_domain_signature"}
EvidencePrompts == {"outcome_refs", "pattern_evidence_refs"}

Prompts ==
    TextPrompts \cup FloatPrompts \cup IntPrompts \cup ChoicePrompts
    \cup MixturePrompts \cup EvidencePrompts

\* the statements that use the store
InsertPcs ==
    {"insert_intent", "insert_observation", "insert_hypothesis",
     "insert_test", "insert_outcome", "insert_pattern_seed"}
StorePcs == {"ensure_schema", "executescript", "commit"} \cup InsertPcs

\* the statements inside the try block
TryPcs == Prompts \cup StorePcs \cup {"append_hypothesis", "return"}

\* the prompts, inserts and final statements of capture in program order;
\* the two loops over the hypotheses go back inside the actions
Program ==
    <<"goal", "constraints", "success_signal", "confidence", "insert_intent",
      "observation_desc", "observation_domain_signature", "insert_observation",
      "hypothesis_count", "model_type", "probability", "falsifiers",
      "domain_signature", "append_hypothesis", "insert_hypothesis",
      "test_hypothesis_index", "test_description", "test_result",
      "test_evidence", "insert_test", "outcome_summary", "outcome_refs",
      "insert_outcome", "trigger", "invariant", "counterexample",
      "best_response", "pattern_domain_signature", "pattern_evidence_refs",
      "insert_pattern_seed", "commit", "return">>

Position(p) == CHOOSE i \in 1..Len(Program) : Program[i] = p

\* a capture that leaves out the pattern seed stage
NextPc_SkipsPatternSeed(p) ==
    IF p = "insert_outcome" THEN "commit" ELSE Program[Position(p) + 1]

\* the statement that follows p in capture
NextPc(p) == Program[Position(p) + 1]

\* a prompt function returned value v: assign it and go on; the loop over
\* range(1, hypothesis_count + 1) starts when the count is known
Accept(v) ==
    /\ loc' = IF pc = "hypothesis_count"
              THEN [loc EXCEPT ![pc] = v, !.index = 1]
              ELSE [loc EXCEPT ![pc] = v]
    /\ pc' = NextPc(pc)
    /\ out' = ""

\* a prompt function printed msg and asks again
Reject(msg) ==
    /\ out' = msg
    /\ UNCHANGED <<pc, loc>>

StoreUntouched ==
    UNCHANGED <<disk, conn, session, trace, ret, exit_code, committed, inserted,
                disk_at_start, assigned, probe, store, run>>

\* main is started: capture connects to the store
Connect ==
    /\ pc \in {"idle", "exited"}
    /\ session < MaxSessions
    /\ session' = session + 1
    /\ conn' = [state |-> "open", in_transaction |-> FALSE,
                foreign_keys |-> FALSE, db |-> disk]
    /\ disk_at_start' = disk
    /\ pc' = "ensure_schema"
    /\ loc' = LocInit
    /\ out' = ""
    /\ trace' = <<>>
    /\ ret' = NoRet
    /\ exit_code' = -1
    /\ UNCHANGED <<disk, committed, inserted, assigned, probe, store, run>>

\* main is started and sqlite3.connect raises (the file cannot be opened):
\* the call is in front of the try block, capture is left with the
\* exception and without a connection
ConnectFails ==
    /\ pc \in {"idle", "exited"}
    /\ session < MaxSessions
    /\ session' = session + 1
    /\ conn' = [NoConn EXCEPT !.state = "failed"]
    /\ disk_at_start' = disk
    /\ pc' = "raised"
    /\ loc' = LocInit
    /\ out' = ""
    /\ trace' = <<>>
    /\ ret' = [NoRet EXCEPT !.kind = "exception"]
    /\ exit_code' = -1
    /\ UNCHANGED <<disk, committed, inserted, assigned, probe, store, run>>

\* _ensure_schema: PRAGMA foreign_keys = ON
EnsureSchemaPragma ==
    /\ pc = "ensure_schema"
    /\ conn' = [conn EXCEPT !.foreign_keys = TRUE]
    /\ loc' = [loc EXCEPT !.stmt = 1]
    /\ pc' = "executescript"
    /\ UNCHANGED <<disk, out, session, trace, ret, exit_code, committed, inserted,
                   disk_at_start, assigned, probe, store, run>>

\* _ensure_schema: one statement of the script.  executescript commits a
\* pending transaction and runs its statements outside any transaction, so
\* each CREATE TABLE is durable at once.
ExecuteScript ==
    /\ pc = "executescript"
    /\ LET db == CreateTableIfNotExists(conn.db, TableNames[loc.stmt])
       IN  /\ conn' = [conn EXCEPT !.db = db, !.in_transaction = FALSE]
           /\ disk' = db
    /\ IF loc.stmt < Len(TableNames)
       THEN /\ loc' = [loc EXCEPT !.stmt = @ + 1]
            /\ pc' = pc
       ELSE /\ loc' = loc
            /\ pc' = "goal"
    /\ UNCHANGED <<out, session, trace, ret, exit_code, committed, inserted,
                   disk_at_start, assigned, probe, store, run>>

\* an exception of type exc leaves the try block: the finally clause runs
\* next; the locals are not read again
Raise(exc) ==
    /\ pc' = "finally"
    /\ loc' = [LocInit EXCEPT !.exc = exc]
    /\ UNCHANGED <<disk, conn, out, session, trace, ret, exit_code, committed, inserted,
                   disk_at_start, assigned, probe, store, run>>

PromptTextStep ==
    /\ pc \in TextPrompts
    /\ \E raw \in TextLines(pc, loc) :
         LET r == PromptText(raw, FALSE)
         IN  IF r.ok THEN Accept(r.v) ELSE Reject("Please provide a value.")
    /\ StoreUntouched

PromptFloatStep ==
    /\ pc \in FloatPrompts
    /\ \E raw \in FloatLines(pc, loc) :
         LET r == PromptFloat(raw, MinFloat, MaxFloat)
         IN  IF r.ok THEN Accept(r.v)
             ELSE IF r.parsed THEN Reject("Value must be between")
             ELSE Reject("Please enter a number.")
    /\ StoreUntouched

\* the bounds of the two integer prompts
IntMin(p) == IF p = "hypothesis_count" THEN MinHypotheses ELSE 1
IntMax(p, l) ==
    IF p = "hypothesis_count" THEN MaxHypotheses ELSE Len(l.hypothesis_ids)

PromptIntStep ==
    /\ pc \in IntPrompts
    /\ \E raw \in IntLines(pc, loc) :
         LET r == PromptInt(raw, IntMin(pc), IntMax(pc, loc))
         IN  IF r.ok THEN Accept(r.v)
             ELSE IF r.parsed THEN Reject("Value must be between")
             ELSE Reject("Please enter an integer.")
    /\ StoreUntouched

PromptChoiceStep ==
    /\ pc \in ChoicePrompts
    /\ \E raw \in ChoiceLines(pc, loc) :
         LET r == PromptChoice(raw, ModelTypes)
         IN  IF r.ok THEN Accept(r.v) ELSE Reject("Please choose one of")
    /\ StoreUntouched

PromptMixtureStep ==
    /\ pc \in MixturePrompts
    /\ \E raw \in MixtureLines(pc, loc) :
         LET r == ParseMixtureVector(raw)
         IN  IF r.ok THEN Accept(r.v)
             ELSE IF r.exc = "ValueError" THEN Reject("Mixture vector")
             ELSE Raise(r.exc)
    /\ StoreUntouched

PromptEvidenceStep ==
    /\ pc \in EvidencePrompts
    /\ \E raw \in EvidenceLines(pc, loc) :
         LET r == ParseEvidenceRefs(Strip(raw))
         IN  IF r.ok THEN Accept(r.v) ELSE Reject("Evidence refs")
    /\ StoreUntouched

\* hypotheses.append(HypothesisInput(...)) and the next round of the loop
AppendHypothesis ==
    /\ pc = "append_hypothesis"
    /\ loc' = [loc EXCEPT
                 !.hypotheses =
                     Append(@, [model_type |-> loc.model_type,
                                probability |-> loc.probability,
                                falsifiers |-> loc.falsifiers,
                                domain_signature |-> loc.domain_signature]),
                 !.index = @ + 1]
    /\ pc' = IF loc.index < loc.hypothesis_count THEN "model_type"
             ELSE NextPc(pc)
    /\ UNCHANGED out
    /\ StoreUntouched

\* cursor = conn.execute("INSERT INTO t ..."); id_var = cursor.lastrowid.
\* Rows carry the number of the session that inserted them (not a column).
Insert(t, row, id_var, next) ==
    IF InsertFails(conn, t, row) THEN Raise("sqlite3.Error")
    ELSE /\ conn' = ExecuteInsert(conn, t, row)
         /\ loc' = [loc EXCEPT ![id_var] = NextRowId(conn.db, t)]
         /\ trace' = Append(trace, t)
         /\ inserted' = inserted \cup {session}
         /\ assigned' =
                IF t = "intents"
                THEN assigned \cup {[id |-> NextRowId(conn.db, t),
                                     session |-> session]}
                ELSE assigned
         /\ pc' = next
         /\ UNCHANGED <<disk, out, session, ret, exit_code, committed,
                        disk_at_start, probe, store, run>>

InsertIntent ==
    /\ pc = "insert_intent"
    /\ Insert("intents",
              [id |-> 0, session |-> session, goal |-> loc.goal,
               constraints |-> loc.constraints,
               success_signal |-> loc.success_signal,
               confidence |-> loc.confidence],
              "intent_id", NextPc(pc))

InsertObservation ==
    /\ pc = "insert_observation"
    /\ Insert("observations",
              [id |-> 0, session |-> session, intent_id |-> loc.intent_id,
               description |-> loc.observation_desc,
               domain_signature |->
                   JsonDumpsMixture(loc.observation_domain_signature)],
              "observation_id", NextPc(pc))

\* hypothesis rows that all reference the first observation of the store
HypothesisRow_FirstObservation(l, i, s) ==
    [id |-> 0, session |-> s, observation_id |-> 1,
     model_type |-> l.hypotheses[i].model_type,
     probability |-> l.hypotheses[i].probability,
     falsifiers |-> l.hypotheses[i].falsifiers,
     domain_signature |-> JsonDumpsMixture(l.hypotheses[i].domain_signature)]

\* hypothesis rows taken from the end of the list
HypothesisRow_Reversed(l, i, s) ==
    LET j == Len(l.hypotheses) + 1 - i
    IN  [id |-> 0, session |-> s, observation_id |-> l.observation_id,
         model_type |-> l.hypotheses[j].model_type,
         probability |-> l.hypotheses[j].probability,
         falsifiers |-> l.hypotheses[j].falsifiers,
         domain_signature |->
             JsonDumpsMixture(l.hypotheses[j].domain_signature)]

\* the row of the hypothesis at position i of hypotheses
HypothesisRow(l, i, s) ==
    [id |-> 0, session |-> s, observation_id |-> l.observation_id,
     model_type |-> l.hypotheses[i].model_type,
     probability |-> l.hypotheses[i].probability,
     falsifiers |-> l.hypotheses[i].falsifiers,
     domain_signature |-> JsonDumpsMixture(l.hypotheses[i].domain_signature)]

\* one round of "for hypothesis in hypotheses": insert it and append its id
InsertHypothesis ==
    /\ pc = "insert_hypothesis"
    /\ LET i == Len(loc.hypothesis_ids) + 1
           row == HypothesisRow(loc, i, session)
       IN  IF InsertFails(conn, "hypotheses", row) THEN Raise("sqlite3.Error")
           ELSE /\ conn' = ExecuteInsert(conn, "hypotheses", row)
                /\ loc' = [loc EXCEPT !.hypothesis_ids =
                              Append(@, NextRowId(conn.db, "hypotheses"))]
                /\ trace' = Append(trace, "hypotheses")
                /\ inserted' = inserted \cup {session}
                /\ pc' = IF i < Len(loc.hypotheses) THEN pc ELSE NextPc(pc)
                /\ UNCHANGED <<disk, out, session, ret, exit_code, committed,
                               disk_at_start, assigned, probe, store, run>>

\* hypothesis_ids[test_hypothesis_index]: the index used without the - 1
\* (the last index wraps to the first to stay inside the list)
MakeTestInput_OffByOne(l) ==
    [hypothesis_id |->
         l.hypothesis_ids[IF l.test_hypothesis_index < Len(l.hypothesis_ids)
                          THEN l.test_hypothesis_index + 1 ELSE 1],
     description |-> l.test_description, result |-> l.test_result,
     evidence |-> l.test_evidence]

\* TestInput(hypothesis_id=hypothesis_ids[test_hypothesis_index - 1], ...);
\* sequences count from 1
MakeTestInput(l) ==
    [hypothesis_id |-> l.hypothesis_ids[l.test_hypothesis_index],
     description |-> l.test_description, result |-> l.test_result,
     evidence |-> l.test_evidence]

InsertTest ==
    /\ pc = "insert_test"
    /\ LET test_input == MakeTestInput(loc)
           row == [id |-> 0, session |-> session,
                   hypothesis_id |-> test_input.hypothesis_id,
                   description |-> test_input.description,
                   result |-> test_input.result,
                   evidence |-> test_input.evidence]
       IN  IF InsertFails(conn, "tests", row) THEN Raise("sqlite3.Error")
           ELSE /\ conn' = ExecuteInsert(conn, "tests", row)
                /\ loc' = [loc EXCEPT !.test_input = test_input,
                                      !.test_id = NextRowId(conn.db, "tests")]
                /\ trace' = Append(trace, "tests")
                /\ inserted' = inserted \cup {session}
                /\ pc' = NextPc(pc)
                /\ UNCHANGED <<disk, out, session, ret, exit_code, committed,
                               disk_at_start, assigned, probe, store, run>>

\* the token appended without the membership test
EnsureTestRef_AlwaysAppends(outcome_refs, test_id) ==
    Append(outcome_refs, TestRef(test_id))

\* if test_ref not in outcome_refs: outcome_refs.append(test_ref)
EnsureTestRef(outcome_refs, test_id) ==
    IF InList(TestRef(test_id), outcome_refs) THEN outcome_refs
    ELSE Append(outcome_refs, TestRef(test_id))

\* an outcome that references the last hypothesis, not the tested one
MakeOutcomeInput_LastHypothesis(l) ==
    [hypothesis_id |-> l.hypothesis_ids[Len(l.hypothesis_ids)],
     summary |-> l.outcome_summary,
     evidence_refs |-> EnsureTestRef(l.outcome_refs, l.test_id)]

\* OutcomeInput(hypothesis_id=test_input.hypothesis_id, ...)
MakeOutcomeInput(l) ==
    [hypothesis_id |-> l.test_input.hypothesis_id,
     summary |-> l.outcome_summary,
     evidence_refs |-> EnsureTestRef(l.outcome_refs, l.test_id)]

\* the row of the outcome: observation_id is the local variable
OutcomeRow(l, s) ==
    [id |-> 0, session |-> s, observation_id |-> l.observation_id,
     hypothesis_id |-> MakeOutcomeInput(l).hypothesis_id,
     summary |-> MakeOutcomeInput(l).summary,
     evidence_refs |-> JsonDumpsRefs(MakeOutcomeInput(l).evidence_refs)]

InsertOutcome ==
    /\ pc = "insert_outcome"
    /\ LET row == OutcomeRow(loc, session)
       IN  IF InsertFails(conn, "outcomes", row) THEN Raise("sqlite3.Error")
           ELSE /\ conn' = ExecuteInsert(conn, "outcomes", row)
                /\ loc' = [loc EXCEPT
                             !.outcome_refs = EnsureTestRef(@, loc.test_id),
                             !.outcome_input = MakeOutcomeInput(loc),
                             !.outcome_id = NextRowId(conn.db, "outcomes")]
                /\ trace' = Append(trace, "outcomes")
                /\ inserted' = inserted \cup {session}
                /\ pc' = NextPc(pc)
                /\ UNCHANGED <<disk, out, session, ret, exit_code, committed,
                               disk_at_start, assigned, probe, store, run>>

\* PatternSeedInput(outcome_id=outcome_id, ...)
MakePatternInput(l) ==
    [outcome_id |-> l.outcome_id, trigger |-> l.trigger,
     invariant |-> l.invariant, counterexample |-> l.counterexample,
     best_response |-> l.best_response,
     domain_signature |-> l.pattern_domain_signature,
     evidence_refs |-> l.pattern_evidence_refs]

\* the insert of the pattern seed does not read lastrowid
InsertPatternSeed ==
    /\ pc = "insert_pattern_seed"
    /\ LET pattern_input == MakePatternInput(loc)
           row == [id |-> 0, session |-> session,
                   outcome_id |-> pattern_input.outcome_id,
                   trigger |-> pattern_input.trigger,
                   invariant |-> pattern_input.invariant,
                   counterexample |-> pattern_input.counterexample,
                   best_response |-> pattern_input.best_response,
                   domain_signature |->
                       JsonDumpsMixture(pattern_input.domain_signature),
                   evidence_refs |->
                       JsonDumpsRefs(pattern_input.evidence_refs)]
       IN  IF InsertFails(conn, "pattern_seeds", row) THEN Raise("sqlite3.Error")
           ELSE /\ conn' = ExecuteInsert(conn, "pattern_seeds", row)
                /\ loc' = [loc EXCEPT !.pattern_input = pattern_input]
                /\ trace' = Append(trace, "pattern_seeds")
                /\ inserted' = inserted \cup {session}
                /\ pc' = NextPc(pc)
                /\ UNCHANGED <<disk, out, session, ret, exit_code, committed,
                               disk_at_start, assigned, probe, store, run>>

\* conn.commit()
Commit ==
    /\ pc = "commit"
    /\ disk' = CommitEffect(disk, conn)
    /\ conn' = [conn EXCEPT !.in_transaction = FALSE]
    /\ trace' = Append(trace, "commit")
    /\ committed' = committed \cup {session}
    /\ pc' = NextPc(pc)
    /\ UNCHANGED <<loc, out, session, ret, exit_code, inserted, disk_at_start,
                   assigned, probe, store, run>>

\* a return value whose hypothesis_ids are in reverse order
ReturnValue_Reversed(l) ==
    [kind |-> "pending", intent_id |-> l.intent_id,
     observation_id |-> l.observation_id,
     hypothesis_ids |->
         [i \in 1..Len(l.hypothesis_ids) |->
              l.hypothesis_ids[Len(l.hypothesis_ids) + 1 - i]],
     test_id |-> l.test_id, outcome_id |-> l.outcome_id]

\* the dictionary of the return statement
ReturnValue(l) ==
    [kind |-> "pending", intent_id |-> l.intent_id,
     observation_id |-> l.observation_id,
     hypothesis_ids |-> l.hypothesis_ids, test_id |-> l.test_id,
     outcome_id |-> l.outcome_id]

\* return {...}: the value is built, then the finally clause runs
Return ==
    /\ pc = "return"
    /\ ret' = ReturnValue(loc)
    /\ pc' = "finally"
    /\ UNCHANGED <<disk, conn, loc, out, session, trace, exit_code, committed, inserted,
                   disk_at_start, assigned, probe, store, run>>

\* input() raises EOFError: the interactive source is closed
InputClosed ==
    /\ pc \in Prompts
    /\ Raise("EOFError")

\* a store statement raises sqlite3.Error (I/O error, locked or full store)
\* before it has any effect
StoreError ==
    /\ pc \in StorePcs
    /\ Raise("sqlite3.Error")

\* a capture that closes the connection after the return statement only,
\* not in a finally clause
Close_OnlyAfterReturn ==
    /\ pc = "finally"
    /\ disk' = IF loc.exc # "" THEN disk ELSE CloseEffect(disk, conn)
    /\ conn' = IF loc.exc # "" THEN conn ELSE [NoConn EXCEPT !.state = "closed"]
    /\ ret' = [ret EXCEPT !.kind = IF loc.exc # "" THEN "exception" ELSE "value"]
    /\ pc' = IF loc.exc # "" THEN "raised" ELSE "returned"
    /\ loc' = LocInit
    /\ UNCHANGED <<out, session, trace, exit_code, committed, inserted,
                   disk_at_start, assigned, probe, store, run>>

\* finally: conn.close(); capture then returns or lets the exception go on
Close ==
    /\ pc = "finally"
    /\ disk' = CloseEffect(disk, conn)
    /\ conn' = [NoConn EXCEPT !.state = "closed"]
    /\ ret' = [ret EXCEPT !.kind = IF loc.exc # "" THEN "exception" ELSE "value"]
    /\ pc' = IF loc.exc # "" THEN "raised" ELSE "returned"
    /\ loc' = LocInit
    /\ UNCHANGED <<out, session, trace, exit_code, committed, inserted,
                   disk_at_start, assigned, probe, store, run>>

\* main: capture() returned, return 0; SystemExit(0)
MainReturn ==
    /\ pc = "returned"
    /\ exit_code' = 0
    /\ pc' = "exited"
    /\ UNCHANGED <<disk, conn, loc, out, session, trace, ret, committed, inserted,
                   disk_at_start, assigned, probe, store, run>>

\* a main that swallows the exception of capture() and returns 0
MainRaise_ExitsZero ==
    /\ pc = "raised"
    /\ exit_code' = 0
    /\ pc' = "exited"
    /\ UNCHANGED <<disk, conn, loc, out, session, trace, ret, committed, inserted,
                   disk_at_start, assigned, probe, store, run>>

\* main: the exception of capture() is not caught; the interpreter prints
\* the traceback and exits with status 1
MainRaise ==
    /\ pc = "raised"
    /\ exit_code' = 1
    /\ pc' = "exited"
    /\ UNCHANGED <<disk, conn, loc, out, session, trace, ret, committed, inserted,
                   disk_at_start, assigned, probe, store, run>>

\* the process is terminated from outside while capture runs: nothing more
\* is executed, the connection is lost with its pending transaction
Kill ==
    /\ pc \in TryPcs \cup {"finally"}
    /\ disk' = CloseEffect(disk, conn)
    /\ conn' = [NoConn EXCEPT !.state = "lost"]
    /\ exit_code' = 137
    /\ pc' = "exited"
    /\ loc' = LocInit
    /\ ret' = NoRet
    /\ UNCHANGED <<out, session, trace, committed, inserted, disk_at_start,
                   assigned, probe, store, run>>

Next ==
    \/ Connect
    \/ ConnectFails
    \/ EnsureSchemaPragma
    \/ ExecuteScript
    \/ PromptTextStep
    \/ PromptFloatStep
    \/ PromptIntStep
    \/ PromptChoiceStep
    \/ PromptMixtureStep
    \/ PromptEvidenceStep
    \/ AppendHypothesis
    \/ InsertIntent
    \/ InsertObservation
    \/ InsertHypothesis
    \/ InsertTest
    \/ InsertOutcome
    \/ InsertPatternSeed
    \/ Commit
    \/ Return
    \/ InputClosed
    \/ StoreError
    \/ Close
    \/ MainReturn
    \/ MainRaise
    \/ Kill

Spec == Init /\ [][Next]_vars

\* A prompt function returns: the operator's line was a valid value
ValidValue ==
    /\ pc \in Prompts
    /\ pc' = NextPc(pc)
    /\ \/ PromptTextStep
       \/ PromptFloatStep
       \/ PromptIntStep
       \/ PromptChoiceStep
       \/ PromptMixtureStep
       \/ PromptEvidenceStep

\* The statement at pc is executed; at a prompt, with a valid value.  The
\* steps left out are the start of a new process, the failures that come
\* from outside (closed input, failing store, termination) and the lines a
\* prompt function does not return for.
Advance ==
    \/ EnsureSchemaPragma
    \/ ExecuteScript
    \/ ValidValue
    \/ AppendHypothesis
    \/ InsertIntent
    \/ InsertObservation
    \/ InsertHypothesis
    \/ InsertTest
    \/ InsertOutcome
    \/ InsertPatternSeed
    \/ Commit
    \/ Return
    \/ Close
    \/ MainReturn
    \/ MainRaise

\* The capture tool with a process that keeps running and an operator who
\* does not answer a prompt with invalid lines for ever
SpecFair == Init /\ [][Next]_vars /\ WF_vars(Advance)

\* ------------------------------------------------------------- collector
\* The parsers of the input collector applied to lines of their own, and
\* the TEXT column json.dumps writes for an accepted mixture vector.
\* Bounds: entries of a probed mixture vector, tokens of a probed line.
MaxEntries == 2
MaxTokens == 2

\* the sequences over S of length at most n
SeqsUpTo(S, n) == UNION {[1..k -> S] : k \in 0..n}

\* the entries a JSON list for a mixture prompt is made of
MixtureEntries ==
    {JDict([domain |-> JStr("ops"), weight |-> JFloat(6)]),
     JDict([domain |-> JStr("risk"), weight |-> JFloat(4)]),
     JDict([domain |-> JStr("ops"), weight |-> JInt(1)]),
     JDict([domain |-> JStr("ops"), weight |-> JInt(FloatExactMax + 1)]),
     JDict([domain |-> JStr("ops"), weight |-> JInt(FloatIntMax + 1)]),
     JDict([domain |-> JStr("ops"), weight |-> JBool(TRUE)]),
     JDict([domain |-> JStr("ops"), weight |-> JStr("high")]),
     JDict([domain |-> JStr("ops"), weight |-> JNull]),
     JDict([domain |-> JStr("ops")]),
     JDict([domain |-> JStr(""), weight |-> JFloat(6)]),
     JDict([domain |-> JInt(1), weight |-> JFloat(6)]),
     JDict([weight |-> JFloat(6)]),
     JStr("ops")}

\* the lines typed at a mixture prompt, after strip()
MixtureProbes ==
    {[kind |-> "empty", data |-> JNull],
     [kind |-> "notjson", data |-> JNull],
     [kind |-> "json", data |-> JStr("ops")],
     [kind |-> "json", data |-> JInt(1)],
     [kind |-> "json",
      data |-> JDict([domain |-> JStr("ops"), weight |-> JFloat(6)])]}
    \cup {[kind |-> "json", data |-> JList(l)] :
              l \in SeqsUpTo(MixtureEntries, MaxEntries)}

\* the tokens an evidence line is made of: none, two references, a token
\* with blanks inside and a token in brackets
EvidenceTokens ==
    {<<>>, Log, TestRef(1), <<W("spike"), SP, W("at"), SP, N(14)>>,
     <<LB, W("draft"), RB>>}

Pads == {"none", "left", "right", "both"}

\* a token with blanks around it
Pad(tok, pad) ==
    CASE pad = "none" -> tok
      [] pad = "left" -> <<SP>> \o tok
      [] pad = "right" -> tok \o <<SP>>
      [] OTHER -> <<SP>> \o tok \o <<SP>>

\* the tokens joined by commas
RECURSIVE CommaLine(_, _)
CommaLine(toks, pad) ==
    IF toks = <<>> THEN <<>>
    ELSE IF Len(toks) = 1 THEN Pad(Head(toks), pad)
    ELSE Pad(Head(toks), pad) \o <<COMMA>> \o CommaLine(Tail(toks), pad)

\* the tokens as JSON string literals joined by commas
RECURSIVE JsonItems(_, _)
JsonItems(toks, pad) ==
    IF toks = <<>> THEN <<>>
    ELSE IF Len(toks) = 1 THEN <<QUOTE>> \o Pad(Head(toks), pad) \o <<QUOTE>>
    ELSE <<QUOTE>> \o Pad(Head(toks), pad) \o <<QUOTE>>
         \o (IF pad = "both" THEN <<SP, COMMA, SP>> ELSE <<COMMA>>)
         \o JsonItems(Tail(toks), pad)

\* the tokens as a JSON list of strings
JsonLine(toks, pad) ==
    IF pad = "both" THEN <<SP, LB, SP>> \o JsonItems(toks, pad) \o <<SP, RB, SP>>
    ELSE <<LB>> \o JsonItems(toks, pad) \o <<RB>>

\* what is typed at a prompt of the collector
ProbeInputs ==
    {[NoProbe EXCEPT !.fn = "mixture", !.json = raw] : raw \in MixtureProbes}
    \cup {[NoProbe EXCEPT !.fn = "evidence", !.enc = "comma", !.toks = toks,
                          !.line = CommaLine(toks, pad)] :
              toks \in SeqsUpTo(EvidenceTokens, MaxTokens), pad \in Pads}
    \cup {[NoProbe EXCEPT !.fn = "evidence", !.enc = "json", !.toks = toks,
                          !.line = JsonLine(toks, pad)] :
              toks \in SeqsUpTo(EvidenceTokens, MaxTokens), pad \in Pads}

InitCollector ==
    InitCapture /\ probe \in ProbeInputs /\ store = EmptyStore /\ run = NoRun

CaptureUnchanged ==
    UNCHANGED <<disk, conn, pc, loc, out, session, trace, ret, exit_code,
                committed, inserted, disk_at_start, assigned>>

EvezUnchanged == UNCHANGED <<store, run>>

\* _prompt_mixture_vector: _parse_mixture_vector(raw) on the stripped line
ParseMixture ==
    /\ probe.fn = "mixture"
    /\ probe.at = "input"
    /\ LET r == ParseMixtureVector(probe.json)
       IN  probe' = [probe EXCEPT !.at = "parsed", !.ok = r.ok, !.exc = r.exc,
                                  !.vec = r.v]
    /\ CaptureUnchanged
    /\ EvezUnchanged

\* json.dumps(domain_signature) for the TEXT column
DumpMixture ==
    /\ probe.fn = "mixture"
    /\ probe.at = "parsed"
    /\ probe.ok
    /\ probe' = [probe EXCEPT !.at = "stored",
                              !.text = JsonDumpsMixture(probe.vec)]
    /\ CaptureUnchanged
    /\ EvezUnchanged

\* json.loads of the TEXT column
LoadMixture ==
    /\ probe.fn = "mixture"
    /\ probe.at = "stored"
    /\ probe' = [probe EXCEPT !.at = "reread",
                              !.reread = JsonLoadsMixture(probe.text)]
    /\ CaptureUnchanged
    /\ EvezUnchanged

\* _prompt_evidence_refs: _parse_evidence_refs(raw) on the stripped line
ParseEvidence ==
    /\ probe.fn = "evidence"
    /\ probe.at = "input"
    /\ LET r == ParseEvidenceRefs(Strip(probe.line))
       IN  probe' = [probe EXCEPT !.at = "parsed", !.ok = r.ok,
                                  !.exc = IF r.ok THEN "" ELSE "ValueError",
                                  !.refs = r.v]
    /\ CaptureUnchanged
    /\ EvezUnchanged

NextCollector ==
    \/ ParseMixture
    \/ DumpMixture
    \/ LoadMixture
    \/ ParseEvidence

SpecCollector == InitCollector /\ [][NextCollector]_vars

\* ------------------------------------------------------ evez-core commands
\* The commands init, add, update and delete of evez-core (evez/cli.py,
\* evez/commands) on one store file.  Every command calls initialize_db
\* first and opens a second connection for its own statement.

\* the store files the first command may find: none yet, or one a later
\* release has written
Seen == [id |-> 1, timestamp |-> 10, content |-> "seen", tags |-> <<>>,
         location |-> <<>>]

EvezStores == {EmptyStore, NewerStore({}), NewerStore({Seen})}

InitEvez ==
    /\ InitCapture
    /\ probe = NoProbe
    /\ store \in EvezStores
    /\ run = NoRun

OthersUnchanged ==
    UNCHANGED <<disk, conn, pc, loc, out, session, trace, ret, exit_code,
                committed, inserted, disk_at_start, assigned, probe>>

\* the command lines
Commands ==
    {[NoRun EXCEPT !.cmd = "init"]}
    \cup {[NoRun EXCEPT !.cmd = "add", !.content = <<"seen">>,
                        !.timestamp = t] : t \in {<<>>, <<10>>}}
    \cup {[NoRun EXCEPT !.cmd = "update", !.observation_id = i,
                        !.content = f.content, !.tags = f.tags,
                        !.location = f.location, !.timestamp = f.timestamp] :
              i \in 1..(MaxObservations + 1),
              f \in {[content |-> <<>>, tags |-> <<>>, location |-> <<>>,
                      timestamp |-> <<>>],
                     [content |-> <<"revised">>, tags |-> <<>>,
                      location |-> <<>>, timestamp |-> <<>>],
                     [content |-> <<"revised">>, tags |-> <<"ok">>,
                      location |-> <<"lab">>, timestamp |-> <<30>>]}}
    \cup {[NoRun EXCEPT !.cmd = "delete", !.observation_id = i, !.force = f] :
              i \in 1..(MaxObservations + 1), f \in BOOLEAN}

\* time.time() when --timestamp is not given
Clock == {20}

\* what is typed at the confirmation prompt of delete
Confirmations ==
    {<<W("yes")>>, <<W("YES")>>, <<SP, W("Yes"), SP>>, <<W("no")>>,
     <<W("y")>>, <<>>}

\* main: the command line is parsed and the run_* function called, which
\* calls initialize_db(db_path).  An add is started while the table has
\* keys left.
Start ==
    /\ run.pc \in {"idle", "exited"}
    /\ \E c \in Commands :
         /\ c.cmd = "add" => store.seq < MaxObservations
         /\ run' = [c EXCEPT !.pc = "initialize_db", !.before = store]
    /\ UNCHANGED store
    /\ OthersUnchanged

\* initialize_db: with connect(db_path) as connection
InitializeDbConnect ==
    /\ run.pc = "initialize_db"
    /\ run' = [run EXCEPT !.pc = "get_schema_version",
                          !.connection = [open |-> TRUE,
                                          in_transaction |-> FALSE,
                                          db |-> store]]
    /\ UNCHANGED store
    /\ OthersUnchanged

\* a CREATE ... IF NOT EXISTS on the connection: outside a transaction the
\* statement is durable at once (sqlite3 opens a transaction before INSERT,
\* UPDATE and DELETE only)
ExecuteCreate(name) ==
    LET db == CreateIfNotExists(run.connection.db, name)
    IN  [connection |-> [run.connection EXCEPT !.db = db],
         store |-> IF run.connection.in_transaction THEN store ELSE db]

\* get_schema_version: _ensure_schema_table, then the SELECT
GetSchemaVersion ==
    /\ run.pc = "get_schema_version"
    /\ LET e == ExecuteCreate("schema_version")
       IN  /\ store' = e.store
           /\ run' = [run EXCEPT !.connection = e.connection,
                                 !.current_version =
                                     RecordedVersion(e.connection.db),
                                 !.pc = "check_version"]
    /\ OthersUnchanged

\* initialize_db: the two tests of current_version; migrate starts with
\* current = from_version
CheckVersion ==
    /\ run.pc = "check_version"
    /\ run' = IF run.current_version > SCHEMA_VERSION
              THEN [run EXCEPT !.exc = "RuntimeError", !.pc = "init_exit"]
              ELSE IF run.current_version < SCHEMA_VERSION
              THEN [run EXCEPT !.current = run.current_version,
                               !.pc = "migrate"]
              ELSE [run EXCEPT !.pc = "init_exit"]
    /\ UNCHANGED store
    /\ OthersUnchanged

\* migrate: while current < to_version, migration_statements(current,
\* current + 1) is asked for
Migrate ==
    /\ run.pc = "migrate"
    /\ run' = IF run.current < SCHEMA_VERSION
              THEN IF migration_statements(run.current, run.current + 1).ok
                   THEN [run EXCEPT !.stmt = 1, !.pc = "apply_statements"]
                   ELSE [run EXCEPT !.exc = "ValueError", !.pc = "init_exit"]
              ELSE [run EXCEPT !.pc = "init_exit"]
    /\ UNCHANGED store
    /\ OthersUnchanged

\* apply_statements: connection.execute(statement) for the next statement
ApplyStatements ==
    /\ run.pc = "apply_statements"
    /\ LET statements ==
               migration_statements(run.current, run.current + 1).statements
           e == ExecuteCreate(statements[run.stmt])
       IN  /\ store' = e.store
           /\ run' = IF run.stmt < Len(statements)
                     THEN [run EXCEPT !.connection = e.connection,
                                      !.stmt = @ + 1]
                     ELSE [run EXCEPT !.connection = e.connection,
                                      !.stmt = 0,
                                      !.pc = "set_schema_version"]
    /\ OthersUnchanged

\* migrate: current = next_version; set_schema_version(connection, current).
\* The DELETE opens the transaction.
SetSchemaVersion ==
    /\ run.pc = "set_schema_version"
    /\ run' = [run EXCEPT
                 !.current = @ + 1,
                 !.connection =
                     [@ EXCEPT !.in_transaction = TRUE,
                               !.db = SetSchemaVersionRows(@, run.current + 1)],
                 !.pc = "migrate"]
    /\ UNCHANGED store
    /\ OthersUnchanged

\* the statement of the run_* function that follows initialize_db
AfterInitialize(cmd) ==
    CASE cmd = "init" -> "main_return"
      [] cmd = "add" -> "execute"
      [] cmd = "update" -> "update"
      [] OTHER -> "delete"

\* the end of a with block: the connection commits when the block returned
\* and rolls back when it raised; it is not closed
WithExit(next) ==
    /\ store' = IF run.exc = "" /\ run.connection.in_transaction
                THEN run.connection.db ELSE store
    /\ run' = [run EXCEPT !.connection = NoConnection,
                          !.current_version = 0, !.current = 0,
                          !.pc = IF run.exc = "" THEN next ELSE "main_except"]

\* initialize_db returns SCHEMA_VERSION or raises
InitializeDbExit ==
    /\ run.pc = "init_exit"
    /\ WithExit(AfterInitialize(run.cmd))
    /\ OthersUnchanged

\* run_update: updates = list(_build_update_pairs(...)); no pair raises
RunUpdate ==
    /\ run.pc = "update"
    /\ run' = IF build_update_pairs(run.content, run.tags, run.location,
                                    run.timestamp) = <<>>
              THEN [run EXCEPT !.exc = "ValueError", !.pc = "main_except"]
              ELSE [run EXCEPT !.pc = "execute"]
    /\ UNCHANGED store
    /\ OthersUnchanged

\* run_delete: with --force no question; else the answer, stripped and in
\* lower case, is compared with "yes"
RunDelete ==
    /\ run.pc = "delete"
    /\ IF run.force THEN run' = [run EXCEPT !.pc = "execute"]
       ELSE \E line \in Confirmations :
                LET confirmation == Strip(line)
                IN  run' = IF Lower(confirmation) # <<W("yes")>>
                           THEN [run EXCEPT !.confirmation = confirmation,
                                            !.pc = "main_return"]
                           ELSE [run EXCEPT !.confirmation = confirmation,
                                            !.pc = "execute"]
    /\ UNCHANGED store
    /\ OthersUnchanged

\* run_delete: input() raises EOFError
ConfirmationClosed ==
    /\ run.pc = "delete"
    /\ ~run.force
    /\ run' = [run EXCEPT !.exc = "EOFError", !.pc = "main_except"]
    /\ UNCHANGED store
    /\ OthersUnchanged

\* the connection of the second with block after connection.execute of the
\* INSERT, UPDATE or DELETE of the command, and what the block raises
Executed(connection) ==
    LET db == connection.db
        tx == [connection EXCEPT !.in_transaction = TRUE]
    IN  IF "observations" \notin db.schema
        THEN [connection |-> connection, exc |-> "sqlite3.OperationalError"]
        ELSE CASE run.cmd = "add" ->
                    [connection |->
                         [tx EXCEPT !.db = InsertObservationRow(
                              db,
                              IF run.timestamp # <<>> THEN run.timestamp[1]
                              ELSE CHOOSE t \in Clock : TRUE,
                              run.content[1], run.tags, run.location)],
                     exc |-> ""]
               [] run.cmd = "update" ->
                    [connection |->
                         [tx EXCEPT !.db = UpdateObservationRows(
                              db,
                              build_update_pairs(run.content, run.tags,
                                                 run.location, run.timestamp),
                              run.observation_id)],
                     exc |-> IF RowCount(db, run.observation_id) = 0
                             THEN "ValueError" ELSE ""]
               [] OTHER ->
                    [connection |->
                         [tx EXCEPT !.db = DeleteObservationRows(
                              db, run.observation_id)],
                     exc |-> IF RowCount(db, run.observation_id) = 0
                             THEN "ValueError" ELSE ""]

\* with connect(db_path) as connection: the statement of the command and
\* the test of cursor.rowcount
Execute ==
    /\ run.pc = "execute"
    /\ LET e == Executed([open |-> TRUE, in_transaction |-> FALSE,
                          db |-> store])
       IN  run' = [run EXCEPT !.connection = e.connection, !.exc = e.exc,
                              !.pc = "with_exit"]
    /\ UNCHANGED store
    /\ OthersUnchanged

\* the end of the second with block
CommandExit ==
    /\ run.pc = "with_exit"
    /\ WithExit("main_return")
    /\ OthersUnchanged

\* main: the run_* function returned
EvezMainReturn ==
    /\ run.pc = "main_return"
    /\ run' = [run EXCEPT !.exit_code = 0, !.pc = "exited"]
    /\ UNCHANGED store
    /\ OthersUnchanged

\* main: except ValueError / except Exception: log and sys.exit(1)
EvezMainExcept ==
    /\ run.pc = "main_except"
    /\ run' = [run EXCEPT !.exit_code = 1, !.pc = "exited"]
    /\ UNCHANGED store
    /\ OthersUnchanged

\* the process is terminated from outside: an open transaction is rolled
\* back
EvezKill ==
    /\ run.pc \notin {"idle", "exited"}
    /\ run' = [run EXCEPT !.connection = NoConnection, !.current_version = 0,
                          !.current = 0, !.stmt = 0, !.exc = "",
                          !.exit_code = 137, !.pc = "exited"]
    /\ UNCHANGED store
    /\ OthersUnchanged

NextEvez ==
    \/ Start
    \/ InitializeDbConnect
    \/ GetSchemaVersion
    \/ CheckVersion
    \/ Migrate
    \/ ApplyStatements
    \/ SetSchemaVersion
    \/ InitializeDbExit
    \/ RunUpdate
    \/ RunDelete
    \/ ConfirmationClosed
    \/ Execute
    \/ CommandExit
    \/ EvezMainReturn
    \/ EvezMainExcept
    \/ EvezKill

SpecEvez == InitEvez /\ [][NextEvez]_vars

\* ================================================================ claims
\* the row of table t with key id in database db
RowOf(db, t, id) == CHOOSE r \in db.rows[t] : r.id = id

\* the rows of table t that session s inserted
RowsBy(db, t, s) == {r \in db.rows[t] : r.session = s}

\* some row of session s is in db
Visible(db, s) == \E t \in Tables : RowsBy(db, t, s) # {}

\* the running process has ended without a commit of its session
EndedUncommitted ==
    /\ pc \in {"raised", "exited"}
    /\ session >= 1
    /\ session \notin committed

\* the statements of capture after the hypotheses are inserted
AfterHypotheses ==
    {"test_hypothesis_index", "test_description", "test_result",
     "test_evidence", "insert_test"}
AfterTest == {"outcome_summary", "outcome_refs", "insert_outcome"}
AfterOutcome ==
    {"trigger", "invariant", "counterexample", "best_response",
     "pattern_domain_signature", "pattern_evidence_refs",
     "insert_pattern_seed"}
AfterPattern == {"commit", "return"}

\* C1: no row inserted by a session that ended before its commit is in the
\* store, and none is in the view of a later session's connection.
C1_AbortedRowsInvisible ==
    \A s \in 1..session :
        s \notin committed =>
            /\ ~Visible(disk, s)
            /\ s < session => ~Visible(conn.db, s)

\* C1 witness: a later session reads the store after a session that
\* inserted rows ended without commit.
C1_Witness ==
    /\ session = 2
    /\ 1 \in inserted
    /\ 1 \notin committed
    /\ pc = "insert_intent"
    /\ conn.db.rows = [t \in Tables |-> {}]

\* C2 as stated: a session that ends before its commit leaves the store,
\* its schema included, exactly as it was when the session started.
C2_StoreExactlyAsBefore == EndedUncommitted => disk = disk_at_start

\* C2 amended: a session that ends before its commit leaves every row and
\* every key counter of the store as it was when the session started; the
\* tables that _ensure_schema created stay.
C2_RowsAsBefore ==
    EndedUncommitted =>
        /\ disk.rows = disk_at_start.rows
        /\ disk.seq = disk_at_start.seq
        /\ disk_at_start.tables \subseteq disk.tables
        /\ disk.tables \subseteq Tables

\* C2 witness: a session on a fresh store ended without commit after it
\* had inserted rows.
C2_Witness ==
    /\ EndedUncommitted
    /\ session \in inserted
    /\ disk_at_start.tables = {}
    /\ disk.tables = Tables

\* the evidence_refs persisted for an outcome row
StoredRefs(r) == JsonLoadsRefs(r.evidence_refs)

\* the outcome rows of db hold the token of the test of their session
TokenInOutcomes(db) ==
    \A o \in db.rows["outcomes"] :
        \E t \in RowsBy(db, "tests", o.session) :
            InList(TestRef(t.id), StoredRefs(o))

\* C3: after every step, every outcome row holds the token test:<id> of the
\* test of its session; the insert of the outcome stores the operator's
\* list unchanged when it holds the token, and else the operator's list
\* followed by the token.
C3_TestRefInOutcome ==
    [][/\ TokenInOutcomes(conn'.db)
       /\ TokenInOutcomes(disk')
       /\ pc = "insert_outcome" /\ pc' = "trigger" =>
            LET stored ==
                    StoredRefs(RowOf(conn'.db, "outcomes", loc'.outcome_id))
                token == TestRef(loc.test_id)
            IN  /\ RowOf(conn'.db, "tests", loc.test_id).session = session
                /\ IF InList(token, loc.outcome_refs)
                   THEN stored = loc.outcome_refs
                   ELSE stored = Append(loc.outcome_refs, token)]_vars

\* C3 witness: the operator typed the token before another reference, and
\* an earlier session stored a list that got the token appended.
C3_Witness ==
    /\ pc = "trigger"
    /\ session = 2
    /\ StoredRefs(RowOf(conn.db, "outcomes", loc.outcome_id))
           = <<TestRef(loc.test_id), Log>>
    /\ \E o \in disk.rows["outcomes"] : StoredRefs(o) = <<Log, TestRef(1)>>

\* C4: the count is unset while it is asked for and within 3..7 once
\* accepted; when the hypotheses are inserted the session has as many
\* hypothesis rows as the count, and so has every committed session.
C4_HypothesisCount ==
    /\ pc = "hypothesis_count" => loc.hypothesis_count = 0
    /\ loc.hypothesis_count # 0 =>
           loc.hypothesis_count \in MinHypotheses..MaxHypotheses
    /\ pc \in AfterHypotheses \cup AfterTest \cup AfterOutcome \cup AfterPattern
           => /\ loc.hypothesis_count \in MinHypotheses..MaxHypotheses
              /\ Cardinality(RowsBy(conn.db, "hypotheses", session))
                     = loc.hypothesis_count
    /\ \A s \in committed :
           Cardinality(RowsBy(disk, "hypotheses", s))
               \in MinHypotheses..MaxHypotheses

\* C4 witness: seven hypotheses were asked for and inserted.
C4_Witness ==
    /\ pc = "test_hypothesis_index"
    /\ loc.hypothesis_count = MaxHypotheses
    /\ Cardinality(RowsBy(conn.db, "hypotheses", session)) = MaxHypotheses

\* the foreign keys of the rows of db refer to rows of db that the same
\* session inserted
SameSessionKeys(db) ==
    /\ \A r \in db.rows["observations"] :
           \E q \in RowsBy(db, "intents", r.session) : q.id = r.intent_id
    /\ \A r \in db.rows["hypotheses"] :
           \E q \in RowsBy(db, "observations", r.session) :
               q.id = r.observation_id
    /\ \A r \in db.rows["tests"] :
           \E q \in RowsBy(db, "hypotheses", r.session) : q.id = r.hypothesis_id
    /\ \A r \in db.rows["outcomes"] :
           /\ \E q \in RowsBy(db, "observations", r.session) :
                  q.id = r.observation_id
           /\ \E q \in RowsBy(db, "hypotheses", r.session) :
                  q.id = r.hypothesis_id
    /\ \A r \in db.rows["pattern_seeds"] :
           \E q \in RowsBy(db, "outcomes", r.session) : q.id = r.outcome_id

\* C5: in every state, so after every insert, each foreign key of each row
\* is the key of a row that the same session inserted before.
C5_ForeignKeysSameSession == SameSessionKeys(conn.db) /\ SameSessionKeys(disk)

\* C5 witness: a second session inserted its pattern seed on a store that
\* holds a committed session.
C5_Witness ==
    /\ pc = "commit"
    /\ session = 2
    /\ committed = {1}
    /\ RowsBy(conn.db, "pattern_seeds", 2) # {}
    /\ RowsBy(conn.db, "pattern_seeds", 1) # {}

HypothesisPrompts == {"model_type", "probability", "falsifiers", "domain_signature"}

\* the hypothesis rows of session s in db with a key up to id
RowsUpTo(db, s, id) == {r \in RowsBy(db, "hypotheses", s) : r.id <= id}

\* row r holds what the operator entered for the hypothesis h
HoldsHypothesis(r, h) ==
    /\ r.model_type = h.model_type
    /\ r.probability = h.probability
    /\ r.falsifiers = h.falsifiers
    /\ JsonLoadsMixture(r.domain_signature) = h.domain_signature

\* C6: the chosen index is unset while it is asked for and within 1..N once
\* accepted; the test row of the session references the hypothesis row that
\* holds the k-th hypothesis entered for the observation of the session,
\* which is the k-th hypothesis row of the session.
C6_TestTargetsChosenHypothesis ==
    /\ pc = "test_hypothesis_index" => loc.test_hypothesis_index = 0
    /\ pc \in (AfterHypotheses \ {"test_hypothesis_index"}) =>
           loc.test_hypothesis_index \in 1..loc.hypothesis_count
    /\ pc \in AfterTest \cup AfterOutcome \cup AfterPattern =>
           LET k == loc.test_hypothesis_index
               t == RowOf(conn.db, "tests", loc.test_id)
               h == RowOf(conn.db, "hypotheses", t.hypothesis_id)
           IN  /\ k \in 1..loc.hypothesis_count
               /\ RowsBy(conn.db, "tests", session) = {t}
               /\ h.session = session
               /\ h.observation_id = loc.observation_id
               /\ HoldsHypothesis(h, loc.hypotheses[k])
               /\ Cardinality(RowsUpTo(conn.db, session, h.id)) = k

\* C6 witness: the second of three hypotheses is tested in a second session.
C6_Witness ==
    /\ pc = "outcome_summary"
    /\ session = 2
    /\ committed = {1}
    /\ loc.hypothesis_count = 3
    /\ loc.test_hypothesis_index = 2
    /\ RowOf(conn.db, "tests", loc.test_id).hypothesis_id = 5

\* the outcome rows of db reference the hypothesis of the test of their
\* session and the observation of that hypothesis
OutcomeMatchesTest(db) ==
    \A o \in db.rows["outcomes"] :
        /\ \E t \in db.rows["tests"] :
               /\ RowsBy(db, "tests", o.session) = {t}
               /\ o.hypothesis_id = t.hypothesis_id
        /\ \E h \in db.rows["hypotheses"] :
               /\ h.id = o.hypothesis_id
               /\ h.observation_id = o.observation_id

\* C7: every outcome row references the hypothesis that the test row of its
\* session references, and the observation that this hypothesis references.
C7_OutcomeMatchesTest == OutcomeMatchesTest(conn.db) /\ OutcomeMatchesTest(disk)

\* C7 witness: an outcome was inserted for a test of the third hypothesis.
C7_Witness ==
    /\ pc = "trigger"
    /\ loc.test_hypothesis_index = 3
    /\ RowsBy(conn.db, "outcomes", session) # {}

\* C8 as stated: while a field of hypothesis i+1 is asked for, hypothesis i
\* is in the store and its identifier is known.
C8_PersistedBeforeNextIsAsked ==
    pc \in HypothesisPrompts =>
        /\ Len(loc.hypothesis_ids) = loc.index - 1
        /\ Cardinality(RowsBy(conn.db, "hypotheses", session)) = loc.index - 1

\* C8 amended: while the fields of the hypotheses are asked for, no
\* hypothesis of the session is in the store; the inserts start when all N
\* are collected, go in capture order (row i holds the i-th hypothesis
\* entered and keys increase) and are complete when the test index is asked
\* for.
C8_CollectedThenPersisted ==
    /\ pc \in HypothesisPrompts \cup {"append_hypothesis"} =>
           /\ RowsBy(conn.db, "hypotheses", session) = {}
           /\ loc.hypothesis_ids = <<>>
           /\ Len(loc.hypotheses) = loc.index - 1
    /\ pc = "insert_hypothesis" =>
           /\ Len(loc.hypotheses) = loc.hypothesis_count
           /\ Len(loc.hypothesis_ids) < loc.hypothesis_count
    /\ pc \in {"insert_hypothesis"} \cup AfterHypotheses =>
           /\ Cardinality(RowsBy(conn.db, "hypotheses", session))
                  = Len(loc.hypothesis_ids)
           /\ \A i \in 1..Len(loc.hypothesis_ids) :
                  /\ HoldsHypothesis(
                         RowOf(conn.db, "hypotheses", loc.hypothesis_ids[i]),
                         loc.hypotheses[i])
                  /\ i > 1 => loc.hypothesis_ids[i - 1] < loc.hypothesis_ids[i]
    /\ pc = "test_hypothesis_index" =>
           Len(loc.hypothesis_ids) = loc.hypothesis_count

\* C8 witness: seven hypotheses are collected and two of them inserted.
C8_Witness ==
    /\ pc = "insert_hypothesis"
    /\ Len(loc.hypotheses) = MaxHypotheses
    /\ Len(loc.hypothesis_ids) = 2

\* the inserts and the commit of a session with n hypotheses
ExpectedTrace(n) ==
    <<"intents", "observations">> \o [i \in 1..n |-> "hypotheses"]
    \o <<"tests", "outcomes", "pattern_seeds", "commit">>

IsPrefix(a, b) == Len(a) <= Len(b) /\ a = SubSeq(b, 1, Len(a))

\* C9: the inserts and commits of a session are always a prefix of: intent,
\* observation, N hypotheses, test, outcome, pattern seed, commit; those of a
\* committed session are the whole sequence, so it has one commit, as its
\* last operation.
C9_StageOrder ==
    /\ \E n \in MinHypotheses..MaxHypotheses : IsPrefix(trace, ExpectedTrace(n))
    /\ session \in committed =>
           \E n \in MinHypotheses..MaxHypotheses : trace = ExpectedTrace(n)

\* C9 witness: a session with seven hypotheses has committed and returned.
C9_Witness ==
    /\ pc = "returned"
    /\ session \in committed
    /\ Len(trace) = MaxHypotheses + 6

\* the keys of the rows of table t that session s has in the store
IdsBy(t, s) == {r.id : r \in RowsBy(disk, t, s)}

\* C10: capture hands a value to its caller only when the session is
\* committed; the value names the one intent, observation, test and outcome
\* row of the session in the store, and hypothesis_ids lists the keys of its
\* hypothesis rows, position i being the row of the hypothesis entered i-th.
C10_ReturnedIdentifiers ==
    /\ ret.kind \in {"pending", "value"} => session \in committed
    /\ pc = "returned" => ret.kind = "value"
    /\ ret.kind = "value" =>
           /\ IdsBy("intents", session) = {ret.intent_id}
           /\ IdsBy("observations", session) = {ret.observation_id}
           /\ IdsBy("tests", session) = {ret.test_id}
           /\ IdsBy("outcomes", session) = {ret.outcome_id}
           /\ Len(ret.hypothesis_ids) = Cardinality(IdsBy("hypotheses", session))
           /\ \A i \in 1..Len(ret.hypothesis_ids) :
                  /\ ret.hypothesis_ids[i] \in IdsBy("hypotheses", session)
                  /\ RowOf(disk, "hypotheses", ret.hypothesis_ids[i]).falsifiers
                         = <<W("falsifiers"), N(i)>>

\* C10 witness: the second committed session returned its identifiers.
C10_Witness ==
    /\ pc = "returned"
    /\ ret.kind = "value"
    /\ committed = {1, 2}
    /\ ret.intent_id = 2
    /\ ret.hypothesis_ids = <<4, 5, 6>>

\* the keys of the rows of table t in db are pairwise different
UniqueIds(db, t) == Cardinality(Ids(db, t)) = Cardinality(db.rows[t])

\* C11 as stated: in the store and in the connection's view the keys of
\* each table are pairwise different, a row of a later session has a larger
\* key than a row of an earlier one, and a key that an INSERT handed out
\* for an intent, in a committed or an aborted session, is never handed out
\* for the intent of another session.
C11_NeverAssignedTwice ==
    /\ \A t \in Tables :
           /\ UniqueIds(disk, t)
           /\ UniqueIds(conn.db, t)
           /\ \A r, q \in conn.db.rows[t] : r.session < q.session => r.id < q.id
    /\ \A a, b \in assigned : a.id = b.id => a.session = b.session

\* a step of _ensure_schema that completes a statement
EnsureSchemaStep ==
    /\ pc \in {"ensure_schema", "executescript"}
    /\ pc' \in {"executescript", "goal"}

\* what a step keeps of the store and of the connection's view
SchemaKept ==
    /\ disk'.rows = disk.rows
    /\ disk'.seq = disk.seq
    /\ conn'.db.rows = conn.db.rows
    /\ disk.tables \subseteq disk'.tables
    /\ disk'.tables \subseteq Tables
    /\ disk_at_start.tables = Tables =>
           (disk' = disk_at_start /\ conn'.db = disk_at_start)
    /\ pc' = "goal" => (disk'.tables = Tables /\ conn'.db = disk')

\* C12: every statement of _ensure_schema leaves the rows and the key
\* counters of the store and of the connection's view as they are and
\* removes no table; run on a store that has the six tables (each later
\* session) it leaves the store exactly as it is; when it is through, the
\* tables are the six of the script.
C12_EnsureSchemaIdempotent == [][EnsureSchemaStep => SchemaKept]_vars

\* C12 witness: _ensure_schema has run to its end in a second session, on a
\* store that holds the rows of a committed session.
C12_Witness ==
    /\ pc = "goal"
    /\ session = 2
    /\ committed = {1}
    /\ disk.rows["pattern_seeds"] # {}
    /\ disk = disk_at_start

\* C13 as stated: what a parser raises for a line never ends a session
\* (only a closed input or a store error does: every malformed or
\* out-of-range line is answered by the same prompt); the values the
\* prompts returned satisfy their constraints, and every persisted
\* confidence and probability lies in [0.0, 1.0].
C13_ValidationStaysInCollector ==
    /\ loc.exc \in {"", "EOFError", "sqlite3.Error"}
    /\ loc.confidence \in MinFloat..MaxFloat
    /\ loc.probability \in MinFloat..MaxFloat
    /\ loc.hypothesis_count \in {0} \cup MinHypotheses..MaxHypotheses
    /\ loc.test_hypothesis_index \in 0..Len(loc.hypothesis_ids)
    /\ \A db \in {disk, conn.db} :
           /\ \A r \in db.rows["intents"] : r.confidence \in MinFloat..MaxFloat
           /\ \A r \in db.rows["hypotheses"] :
                  r.probability \in MinFloat..MaxFloat

\* C14 as stated: a process that has ended has exit code 0 exactly when its
\* session was committed.
C14_ExitZeroIffCommitted ==
    pc = "exited" => (exit_code = 0 <=> session \in committed)

\* C14 amended: exit code 0 only for a committed session; capture returns
\* to main only after its commit, and an exception that leaves capture
\* (store error, closed input) finds the session uncommitted, none of its
\* rows in the store, and ends the process with code 1; a committed session
\* ends with a code other than 0 only when the process was terminated from
\* outside after the commit.
C14_ExitCode ==
    /\ pc = "returned" => session \in committed
    /\ pc = "raised" => session \notin committed /\ ~Visible(disk, session)
    /\ pc = "exited" =>
           /\ exit_code \in {0, 1, 137}
           /\ exit_code = 0 => session \in committed /\ ret.kind = "value"
           /\ exit_code = 1 =>
                  /\ session \notin committed
                  /\ ~Visible(disk, session)
                  /\ ret.kind = "exception"
           /\ session \in committed => exit_code \in {0, 137}

\* C14 witness: a second session failed after it had inserted rows and its
\* process ended with code 1; the first session is committed.
C14_Witness ==
    /\ pc = "exited"
    /\ exit_code = 1
    /\ session = 2
    /\ session \in inserted
    /\ committed = {1}

\* a JSON number
JsonNumber(x) == x.t \in {"int", "float"}

\* an entry with a non-empty string domain and a numeric weight
WellFormedEntry(e) ==
    /\ e.t = "dict"
    /\ "domain" \in DOMAIN e.f
    /\ e.f["domain"].t = "str"
    /\ e.f["domain"].s # ""
    /\ "weight" \in DOMAIN e.f
    /\ JsonNumber(e.f["weight"])

\* the line is empty or a list of well-formed entries
WellFormedMixture(raw) ==
    \/ raw.kind = "empty"
    \/ /\ raw.kind = "json"
       /\ raw.data.t = "list"
       /\ \A i \in 1..Len(raw.data.items) : WellFormedEntry(raw.data.items[i])

\* C15 as stated: a mixture line is accepted only if it is empty or a list
\* of entries with a non-empty string domain and a numeric weight; any
\* other line is rejected by ValueError, which repeats the prompt; the
\* weights of an accepted vector are the numbers of the line, none is made
\* from a value that is not a number.
C15_MixtureAcceptedOnlyIfWellFormed ==
    probe.fn = "mixture" /\ probe.at = "parsed" =>
        /\ probe.ok => WellFormedMixture(probe.json)
        /\ ~WellFormedMixture(probe.json) =>
               ~probe.ok /\ probe.exc = "ValueError"
        /\ probe.ok /\ probe.json.kind = "json" =>
               \A i \in 1..Len(probe.vec) :
                   JsonNumber(probe.json.data.items[i].f["weight"])

\* the tokens that are not empty, in their order
NonEmptyTokens(toks) == SelectSeq(toks, LAMBDA t : t # <<>>)

\* the stripped line starts with "["
StartsWithBracket(line) == Strip(line) # <<>> /\ Strip(line)[1] = LB

EmptyLine == [kind |-> "empty", data |-> JNull]

\* both parsers accept the empty line and return the empty list
EmptyAccepted ==
    /\ ParseMixtureVector(EmptyLine) = [ok |-> TRUE, exc |-> "", v |-> <<>>]
    /\ ParseEvidenceRefs(<<>>) = [ok |-> TRUE, v |-> <<>>]

\* the TEXT column holds the empty JSON list
EmptyText(text) == text.open = "[" /\ text.body = <<>> /\ text.close = "]"

\* the insert of the observation, of a hypothesis and of the pattern seed
\* store an empty list the operator gave as the empty JSON list
EmptyStoredByInsert ==
    /\ pc = "insert_observation" /\ pc' = NextPc(pc)
       /\ loc.observation_domain_signature = <<>> =>
           EmptyText(RowOf(conn'.db, "observations",
                           loc'.observation_id).domain_signature)
    /\ pc = "insert_hypothesis" /\ trace' # trace
       /\ loc.hypotheses[Len(loc'.hypothesis_ids)].domain_signature = <<>> =>
           EmptyText(RowOf(conn'.db, "hypotheses",
                           loc'.hypothesis_ids[Len(loc'.hypothesis_ids)])
                         .domain_signature)
    /\ pc = "insert_pattern_seed" /\ pc' = NextPc(pc) =>
           \A r \in RowsBy(conn'.db, "pattern_seeds", session) :
               /\ loc.pattern_domain_signature = <<>> =>
                      EmptyText(r.domain_signature)
               /\ loc.pattern_evidence_refs = <<>> =>
                      EmptyText(r.evidence_refs)

\* the operator's list of outcome references is empty and the outcome is
\* inserted
EmptyOutcomeRefsInserted ==
    pc = "insert_outcome" /\ pc' = NextPc(pc) /\ loc.outcome_refs = <<>>

\* C17 as stated: the empty line is accepted by both parsers, and an empty
\* list given for a domain_signature or for evidence_refs is stored as the
\* empty list, for the observation, the hypotheses, the outcome and the
\* pattern seed.
C17_EmptyStoredAsEmpty ==
    [][/\ EmptyAccepted
       /\ EmptyStoredByInsert
       /\ EmptyOutcomeRefsInserted =>
              EmptyText(RowOf(conn'.db, "outcomes",
                              loc'.outcome_id).evidence_refs)]_vars

\* C17 amended: as stated for the observation, the hypotheses and the
\* pattern seed; the outcome stores for an empty list the list that holds
\* the token of the session's test and nothing else.
C17_EmptyStoredAsEmptyButOutcome ==
    [][/\ EmptyAccepted
       /\ EmptyStoredByInsert
       /\ EmptyOutcomeRefsInserted =>
              StoredRefs(RowOf(conn'.db, "outcomes", loc'.outcome_id))
                  = <<TestRef(loc.test_id)>>]_vars

\* C17 witness: a session is about to commit an outcome that holds the
\* test token only and a pattern seed with an empty domain_signature and
\* empty evidence_refs.
C17_Witness ==
    /\ pc = "commit"
    /\ loc.pattern_domain_signature = <<>>
    /\ loc.pattern_evidence_refs = <<>>
    /\ \E r \in RowsBy(conn.db, "pattern_seeds", session) :
           EmptyText(r.domain_signature) /\ EmptyText(r.evidence_refs)
    /\ \E r \in RowsBy(conn.db, "outcomes", session) :
           StoredRefs(r) = <<TestRef(loc.test_id)>>

\* the number a JSON weight stands for, in tenths (true and false count as
\* 1 and 0, as they do in Python)
NumericValue(x) == IF x.t = "float" THEN x.n ELSE 10 * x.n

\* the entries of the accepted line of the probe
InputEntries == probe.json.data.items

\* C18 as stated: the stored text of an accepted mixture vector, when
\* re-read, has one pair per entry of the accepted line, in the same order,
\* with the domain and the numeric value of the weight of that entry.
C18_RoundTripSameValues ==
    probe.fn = "mixture" /\ probe.at = "reread" /\ probe.json.kind = "json" =>
        /\ Len(probe.reread) = Len(InputEntries)
        /\ \A i \in 1..Len(InputEntries) :
               /\ probe.reread[i].domain = InputEntries[i].f["domain"].s
               /\ probe.reread[i].weight
                      = NumericValue(InputEntries[i].f["weight"])

\* C18 amended: the re-read list is the list the parser returned, pair by
\* pair; its domains are those of the line, and its weights are the values
\* of the line's weights when these are floats or integers that a float
\* holds exactly; a larger integer comes back as a float next to it.
C18_RoundTripOfParsedVector ==
    probe.fn = "mixture" /\ probe.at = "reread" =>
        /\ probe.reread = probe.vec
        /\ probe.json.kind = "empty" => probe.reread = <<>>
        /\ probe.json.kind = "json" =>
               /\ Len(probe.reread) = Len(InputEntries)
               /\ \A i \in 1..Len(InputEntries) :
                      LET w == InputEntries[i].f["weight"]
                          d == probe.reread[i].weight - NumericValue(w)
                      IN  /\ probe.reread[i].domain
                                 = InputEntries[i].f["domain"].s
                          /\ IF w.t = "float" \/ w.n <= FloatExactMax
                             THEN d = 0
                             ELSE d \in -10..10

\* C18 witness: the vector ops 0.6, risk 0.4 was stored and re-read.
C18_Witness ==
    /\ probe.fn = "mixture"
    /\ probe.at = "reread"
    /\ probe.json.data = OpsRisk
    /\ probe.reread = <<[domain |-> "ops", weight |-> 6],
                        [domain |-> "risk", weight |-> 4]>>

\* the number of rows of table t that session s has in db
Added(db, t, s) == Cardinality(RowsBy(db, t, s))

\* every committed session has in db one intent, one observation, 3 to 7
\* hypotheses, one test, one outcome and one pattern seed
OneOfEach(db, sessions) ==
    \A s \in sessions :
        /\ \A t \in Tables \ {"hypotheses"} : Added(db, t, s) = 1
        /\ Added(db, "hypotheses", s) \in MinHypotheses..MaxHypotheses

\* a step keeps every row that is in the store, and every row that the
\* open connection sees, as it is
RowsKept ==
    \A t \in Tables :
        /\ disk.rows[t] \subseteq disk'.rows[t]
        /\ conn.state = "open" /\ conn'.state = "open" =>
               conn.db.rows[t] \subseteq conn'.db.rows[t]

\* C19: no step removes or changes a row of the store or of the open
\* connection's view; the rows the store had when the session connected
\* are in it and in the view; the commit adds to them one intent, one
\* observation, the N hypotheses asked for, one test, one outcome and one
\* pattern seed of the session and nothing else; a session that is not
\* committed has added nothing.
C19_AppendOnly ==
    [][/\ RowsKept
       /\ OneOfEach(disk', committed')
       /\ \A t \in Tables :
              /\ disk_at_start'.rows[t] \subseteq disk'.rows[t]
              /\ conn'.state = "open" =>
                     disk_at_start'.rows[t] \subseteq conn'.db.rows[t]
              /\ disk'.rows[t] \ disk_at_start'.rows[t]
                     = IF session' \in committed'
                       THEN RowsBy(disk', t, session') ELSE {}
       /\ pc = "commit" /\ pc' = "return" =>
              Added(disk', "hypotheses", session) = loc.hypothesis_count]_vars

\* C19 witness: a second session with three hypotheses has committed on a
\* store that holds the rows of a committed session.
C19_Witness ==
    /\ pc = "returned"
    /\ committed = {1, 2}
    /\ Added(disk, "hypotheses", 1) = MinHypotheses
    /\ Added(disk, "hypotheses", 2) = MinHypotheses
    /\ disk_at_start.rows["hypotheses"] = RowsBy(disk, "hypotheses", 1)
    /\ Cardinality(disk.rows["intents"]) = 2

\* the four model types
ModelTypeSet == {<<W("me")>>, <<W("we")>>, <<W("they")>>, <<W("system")>>}

\* the option that a word spells in some mix of cases, "" when none
OptionOf(word) ==
    CASE word \in {"me", "ME"} -> "me"
      [] word \in {"we", "We"} -> "we"
      [] word \in {"they", "THEY"} -> "they"
      [] word \in {"system", "System"} -> "system"
      [] OTHER -> ""

\* the line without its blanks
NoBlanks(line) == SelectSeq(line, LAMBDA a : a # SP)

\* the line is one word that spells an option, with blanks around it at most
SpellsOption(line) ==
    /\ Len(NoBlanks(line)) = 1
    /\ NoBlanks(line)[1].k = "word"
    /\ OptionOf(NoBlanks(line)[1].w) # ""
    /\ Strip(line) = NoBlanks(line)

\* of the lines typed at the model type prompt, those that spell an option
\* in any case are accepted, as the lower-case option, and no other
ChoiceByCase ==
    \A i \in 1..MaxHypotheses :
        \A raw \in ChoiceLines("model_type", [index |-> i]) :
            LET r == PromptChoice(raw, ModelTypes)
            IN  /\ r.ok <=> SpellsOption(raw)
                /\ r.ok => r.v = <<W(OptionOf(NoBlanks(raw)[1].w))>>

\* a step at the model type prompt: the value is one of the four and the
\* next prompt follows, or the prompt is repeated with nothing changed but
\* the message, or the session ends (closed input, termination)
ChoiceStep ==
    pc = "model_type" =>
        \/ pc' = "probability" /\ loc'.model_type \in ModelTypeSet
        \/ /\ pc' = pc
           /\ loc' = loc
           /\ out' = "Please choose one of"
           /\ disk' = disk
           /\ conn' = conn
        \/ pc' \in {"finally", "exited"}

\* C20: every hypothesis row, in the store and in the connection's view,
\* has one of the four model types; the prompt accepts a line exactly when
\* it spells an option in some mix of cases and returns the option in
\* lower case; any other line repeats the prompt.
C20_ModelTypeOneOfFour ==
    [][/\ \A r \in disk'.rows["hypotheses"] \cup conn'.db.rows["hypotheses"] :
              r.model_type \in ModelTypeSet
       /\ \A i \in 1..Len(loc'.hypotheses) :
              loc'.hypotheses[i].model_type \in ModelTypeSet
       /\ ChoiceByCase
       /\ ChoiceStep]_vars

\* C20 witness: the store holds a committed session whose second, third
\* and fourth hypothesis, typed as " We", "System " and "THEY", have the
\* model types we, system and they.
C20_Witness ==
    /\ committed # {}
    /\ \E a, b, c \in disk.rows["hypotheses"] :
           /\ a.falsifiers = <<W("falsifiers"), N(2)>>
           /\ a.model_type = <<W("we")>>
           /\ b.falsifiers = <<W("falsifiers"), N(3)>>
           /\ b.model_type = <<W("system")>>
           /\ c.falsifiers = <<W("falsifiers"), N(4)>>
           /\ c.model_type = <<W("they")>>

\* the input stream stays open, the store does not fail and the process is
\* not terminated from outside
NoOutsideFailure ==
    /\ loc.exc \notin {"EOFError", "sqlite3.Error"}
    /\ exit_code # 137

\* session s has connected
Started(s) == session = s /\ pc = "ensure_schema"

\* capture has committed session s, closed the connection and returned
CommittedAndReturned(s) == session = s /\ s \in committed /\ pc = "returned"

\* C21 as stated: when the input stream stays open, the store does not fail
\* and the operator gives a valid value at each prompt in the end, every
\* session that has started reaches the commit and capture returns,
\* whatever invalid lines were typed before.
C21_InvalidInputNeverEndsSession ==
    \A s \in 1..MaxSessions :
        []NoOutsideFailure => (Started(s) ~> CommittedAndReturned(s))

\* where the connection of the running invocation stands at each statement
ConnectionByPc ==
    /\ pc = "idle" => conn.state = "none"
    /\ pc \in TryPcs \cup {"finally"} => conn.state = "open"
    /\ pc = "returned" => conn.state = "closed"
    /\ pc = "raised" => conn.state \in {"closed", "failed"}
    /\ pc = "exited" =>
           /\ conn.state \in {"closed", "failed", "lost"}
           /\ conn.state = "lost" <=> exit_code = 137

\* a connection is opened by the first statement of an invocation only
OpenedOnce ==
    /\ conn'.state = "open" /\ conn.state # "open" =>
           /\ pc \in {"idle", "exited"}
           /\ session' = session + 1
    /\ conn.state = "open" => session' = session
    /\ session' # session => conn'.state \in {"open", "failed"}

\* an insert or a commit is executed on an open connection
UsedWhileOpen ==
    \/ session' # session
    \/ /\ trace' = trace
       /\ committed' = committed
       /\ inserted' = inserted
       /\ conn.state # "open" => conn' = conn /\ disk' = disk
    \/ conn.state = "open" /\ conn'.state = "open"

\* C22: each invocation of capture opens one connection, in its first
\* statement; the connection is open while the statements of the try block
\* run and closed when capture has returned and when it has raised (after
\* a commit and after a failure of any stage alike); only a process that
\* is terminated from outside loses it unclosed; no insert and no commit
\* is executed on a connection that is not open.
C22_ConnectionOpenedOnceAndClosed ==
    [][ConnectionByPc' /\ OpenedOnce /\ UsedWhileOpen]_vars

\* C22 witness: a first session was committed and closed; the second
\* session has inserted rows, a stage has raised, and capture is left with
\* the connection closed.
C22_Witness ==
    /\ pc = "raised"
    /\ session = 2
    /\ committed = {1}
    /\ 2 \in inserted
    /\ conn.state = "closed"

\* initialize_db is left, by return or by an exception (the process was
\* not terminated inside it)
InitializeDbEnds == run.pc = "init_exit" /\ run'.pc # "exited"

\* what initialize_db leaves, by the version the store recorded when it
\* was called
InitializeDbResult ==
    IF RecordedVersion(run.before) <= SCHEMA_VERSION
    THEN /\ run.exc = ""
         /\ store'.version = <<SCHEMA_VERSION>>
         /\ store'.observations = run.before.observations
         /\ RecordedVersion(run.before) = SCHEMA_VERSION => store' = run.before
    ELSE /\ run.exc = "RuntimeError"
         /\ store' = run.before

\* C23: initialize_db on a store whose recorded version is at most
\* SCHEMA_VERSION returns with schema_version holding the one row
\* SCHEMA_VERSION and with the observations the store had; on a store it
\* has initialized before it changes nothing; on a store whose recorded
\* version is greater it raises RuntimeError and leaves the store as it
\* was: no migration statement, no version change.
C23_InitializeDb == [][InitializeDbEnds => InitializeDbResult]_vars

\* C23 witness: init has returned from initialize_db, called on a store
\* that an earlier command had migrated to SCHEMA_VERSION and that holds
\* observations; the store is as it was.
C23_Witness ==
    /\ run.cmd = "init"
    /\ run.pc = "main_return"
    /\ run.before.version = <<SCHEMA_VERSION>>
    /\ run.before.observations # {}
    /\ store = run.before

\* the command has ended by itself
Ended == run.pc = "exited" /\ run.exit_code # 137

\* the identifier of the command matches no observation
NotFound ==
    /\ run.cmd \in {"update", "delete"}
    /\ \A r \in run.before.observations : r.id # run.observation_id

\* an update without --content, --tags, --location and --timestamp
NoField ==
    /\ run.cmd = "update"
    /\ build_update_pairs(run.content, run.tags, run.location,
                          run.timestamp) = <<>>

\* the delete is not held back by the confirmation
Confirmed == run.force \/ Lower(run.confirmation) = <<W("yes")>>

\* a command that the claim says raises ValueError
MustFail ==
    \/ run.cmd = "update" /\ (NotFound \/ NoField)
    \/ run.cmd = "delete" /\ NotFound /\ Confirmed

\* a delete without --force whose answer is not yes (in any case, blanks
\* around it aside)
Declined == run.cmd = "delete" /\ ~run.force /\ ~Confirmed

\* the observations are those the store held when the command started
ObservationsKept == store.observations = run.before.observations

====
